---- MODULE Spec2Model ----
(***************************************************************************)
(* Model of the incremental construction search engine of MVRPTW:          *)
(* the per-vehicle State tree (models/state.py), Vehicle.expand / perform  *)
(* / is_feasible / select / remove (models/vehicle.py) and the             *)
(* construction loop SelectionSolver.solve.                                *)
(*                                                                         *)
(* Python objects live in a heap: `heap` is the sequence of State objects  *)
(* (a State's identity is its index), `fsets` the sequence of the set      *)
(* objects held in State._frontier (two States may hold the same set       *)
(* object after State.select).  Numbers are integers: every matrix entry   *)
(* and window bound the loader produces is float(int).                     *)
(*                                                                         *)
(* Names that differ between the modules of the source tree are bound to   *)
(* the definition that exists: vehicle.py reads action.node and            *)
(* action.delivery, actions.py stores node_idx and Call.delivery.          *)
(***************************************************************************)
EXTENDS Integers, Sequences, FiniteSets, TLC

VARIABLES inst, heap, fsets, initial_state, current_state, route_length,
          unanswered_calls, pc, error, selected, last, multi, beam, objs

vars == <<inst, heap, fsets, initial_state, current_state, route_length,
          unanswered_calls, pc, error, selected, last, multi, beam,
          objs>>

(***************************************************************************)
(* Bounds of the model.                                                    *)
(***************************************************************************)
NumVehicles == 2
NumCalls == 2
MaxCapacity == 2
MaxTravel == 2
MaxLatest == 3
MaxNodes == 2
MaxTime == 3
MaxTrials == 2
MaxBeamState == 4
MaxWidth == 2
MaxDepth == 3
NumObjs == 2
MaxLookahead == 2
MaxWindow == 1

NumNodes == 2

Vehicles == 0 .. (NumVehicles - 1)
Calls == 0 .. (NumCalls - 1)
Nodes == 0 .. (NumNodes - 1)

(***************************************************************************)
(* Actions and calls (models/actions.py).  An action is identified by      *)
(* (call index, action_idx), which is what __eq__/__hash__ compare.        *)
(***************************************************************************)
Pickup(c) == [call |-> c, action_idx |-> 0]
Delivery(c) == [call |-> c, action_idx |-> 1]
Actions == [call : Calls, action_idx : {0, 1}]
NoAction == [call |-> -1, action_idx |-> -1]
None == 0

Op(name, v, a, c) == [op |-> name, vehicle |-> v, action |-> a, call |-> c]

\* beam_search is not running
NoBeam ==
  [initial_state |-> 0, expand_fn |-> "none", beam_width |-> 0,
   max_depth |-> 0, depth |-> 0, beam |-> <<>>, result |-> <<>>]

\* multi_solve is not running
NoMulti ==
  [solver |-> "none", n |-> 0, trial |-> 0, best_cost |-> <<>>,
   best_action_sequence |-> <<>>, history |-> <<>>]

(***************************************************************************)
(* The problem instance: what load_problem builds from the file.  The      *)
(* instance is drawn in Init from the family below (inst fixes capacity,   *)
(* travel time and the delivery deadline).                                 *)
(***************************************************************************)
Instances ==
  [cap : 1 .. MaxCapacity, tt : 0 .. MaxTravel, dl : 1 .. MaxLatest]

size(c) == c + 1
capacity(v) == inst.cap
compatible_calls(v) == {c \in Calls : c # v - 1}
start_node(v) == v % NumNodes
start_time(v) == 0
travel_times(v, i, j) == IF i = j THEN 0 ELSE inst.tt + v
service_times(v, c, k) == k

node_idx(a) == IF a.action_idx = 0 THEN a.call % NumNodes
                                   ELSE (a.call + 1) % NumNodes
earliest_time(a) == IF a.action_idx = 0 THEN a.call ELSE 1
latest_time(a) == IF a.action_idx = 0 THEN a.call + 1 ELSE inst.dl + a.call
load_delta(a) == IF a.action_idx = 0 THEN size(a.call) ELSE 0 - size(a.call)

(***************************************************************************)
(* Members the code under src/ reads or calls and no file under src/       *)
(* defines; each is taken from the description of the design:              *)
(*   Action.node       read by Vehicle.perform, is_feasible and cost: the  *)
(*                     node of the action, kept by Action as node_idx;     *)
(*   Pickup.delivery   read by Vehicle.perform: the Delivery of the        *)
(*                     pickup's call; a commitment is kept as the call of  *)
(*                     its Delivery.                                       *)
(***************************************************************************)
node(a) == node_idx(a)
delivery_of(action) == action.call

\* costs: integers, the void costs even so that void_cost / 2 is an integer
void_cost(c) == 2 * (c + 1)
travel_costs(v, i, j) == IF i = j THEN 0 ELSE 2 + v + j
service_costs(v, c, k) == c + k

Max(a, b) == IF a >= b THEN a ELSE b

(***************************************************************************)
(* State (models/state.py).  commitments is the set of calls whose         *)
(* Delivery is owed; load is <<>> when _load is None, else <<_load>>;      *)
(* next_states is the insertion-ordered dict Action -> State.              *)
(***************************************************************************)
State(n, t, commitments, load) ==
  [node |-> n, time |-> t, commitments |-> commitments, load |-> load,
   next_states |-> <<>>, selected_action |-> NoAction, next_state |-> None,
   frontier |-> None]

RECURSIVE SumSizes(_)
SumSizes(S) ==
  IF S = {} THEN 0
  ELSE LET c == CHOOSE x \in S : TRUE IN size(c) + SumSizes(S \ {c})

load(s) == IF s.load = <<>> THEN SumSizes(s.commitments) ELSE s.load[1]

\* the State after its load property was read: a _load of None is
\* replaced by the sum just computed
load_read(s) == [s EXCEPT !.load = <<load(s)>>]

Keys(ns) == {ns[i].action : i \in DOMAIN ns}
Values(ns) == {ns[i].state : i \in DOMAIN ns}
Child(ns, a) == (CHOOSE i \in DOMAIN ns : ns[i].action = a)
Lookup(ns, a) == ns[Child(ns, a)].state

RECURSIVE SeqOfCalls(_)
SeqOfCalls(S) ==
  IF S = {} THEN <<>>
  ELSE LET c == CHOOSE x \in S : \A y \in S : x <= y
       IN <<c>> \o SeqOfCalls(S \ {c})

(***************************************************************************)
(* Vehicle.is_feasible and Vehicle.perform (models/vehicle.py).  A value   *)
(* of Union[X, None] is <<>> for None and <<x>> otherwise.                 *)
(***************************************************************************)
RECURSIVE sorted_commitments(_)
sorted_commitments(S) ==
  IF S = {} THEN <<>>
  ELSE LET c == CHOOSE x \in S : \A y \in S :
                  \/ latest_time(Delivery(x)) < latest_time(Delivery(y))
                  \/ /\ latest_time(Delivery(x)) = latest_time(Delivery(y))
                     /\ x <= y
       IN <<c>> \o sorted_commitments(S \ {c})

\* is_feasible that tries the delivery with the earliest deadline only
RECURSIVE is_feasible_first_only(_, _)
is_feasible_first_only(v, state) ==
  IF state.commitments = {} THEN TRUE
  ELSE LET sorted == sorted_commitments(state.commitments)
           delivery == Delivery(sorted[1])
           new_load == load(state) + load_delta(delivery)
           arrival_time == state.time
                           + travel_times(v, state.node, node(delivery))
           wait_time == Max(0, earliest_time(delivery) - arrival_time)
           new_time == arrival_time + wait_time
                       + service_times(v, delivery.call, 1)
           remaining == state.commitments \ {sorted[1]}
       IN /\ ~(new_load > capacity(v))
          /\ ~(arrival_time > latest_time(delivery))
          /\ is_feasible_first_only(v, State(node(delivery), new_time,
                                             remaining, <<new_load>>))

\* is_feasible that accepts when some delivery can be made next, without
\* looking at the deliveries left after it
is_feasible_one_step(v, state) ==
  IF state.commitments = {} THEN TRUE
  ELSE LET sorted == sorted_commitments(state.commitments) IN
       \E i \in 1 .. Len(sorted) :
         LET delivery == Delivery(sorted[i])
             new_load == load(state) + load_delta(delivery)
             arrival_time == state.time
                             + travel_times(v, state.node, node(delivery))
         IN /\ ~(new_load > capacity(v))
            /\ ~(arrival_time > latest_time(delivery))

RECURSIVE is_feasible(_, _)
is_feasible(v, state) ==
  IF state.commitments = {} THEN TRUE
  ELSE LET sorted == sorted_commitments(state.commitments) IN
       \E i \in 1 .. Len(sorted) :
         LET delivery == Delivery(sorted[i])
             new_load == load(state) + load_delta(delivery)
             arrival_time == state.time
                             + travel_times(v, state.node, node(delivery))
             wait_time == Max(0, earliest_time(delivery) - arrival_time)
             new_time == arrival_time + wait_time
                         + service_times(v, delivery.call, 1)
             remaining == state.commitments \ {sorted[i]}
         IN /\ ~(new_load > capacity(v))
            /\ ~(arrival_time > latest_time(delivery))
            /\ is_feasible(v, State(node(delivery), new_time, remaining,
                                    <<new_load>>))

\* get_new_time without the test against latest_time
get_new_time_no_deadline(v, s, action) ==
  LET arrival_time == s.time + travel_times(v, s.node, node(action)) IN
  <<Max(arrival_time, earliest_time(action))
    + service_times(v, action.call, action.action_idx)>>

get_new_time(v, s, action) ==
  LET arrival_time == s.time + travel_times(v, s.node, node(action)) IN
  IF arrival_time > latest_time(action) THEN <<>>
  ELSE <<Max(arrival_time, earliest_time(action))
         + service_times(v, action.call, action.action_idx)>>

\* perform without the look-ahead over the open deliveries
perform_no_lookahead(v, s, action) ==
  LET new_time == get_new_time(v, s, action) IN
  IF new_time = <<>> THEN <<>>
  ELSE
    LET new_load == load(s) + load_delta(action)
        new_state ==
          IF action.action_idx = 0
          THEN State(node(action), new_time[1],
                     s.commitments \cup {delivery_of(action)}, <<new_load>>)
          ELSE State(node(action), new_time[1],
                     s.commitments \ {action.call}, <<new_load>>)
    IN IF action.action_idx = 0 /\ action.call \notin compatible_calls(v)
       THEN <<>>
       ELSE IF action.action_idx = 1 /\ action.call \notin s.commitments
       THEN <<>>
       ELSE <<new_state>>

\* perform without the test of the vehicle's compatible calls
perform_any_call(v, s, action) ==
  LET new_time == get_new_time(v, s, action) IN
  IF new_time = <<>> THEN <<>>
  ELSE
    LET new_load == load(s) + load_delta(action)
        new_state ==
          IF action.action_idx = 0
          THEN State(node(action), new_time[1],
                     s.commitments \cup {delivery_of(action)}, <<new_load>>)
          ELSE State(node(action), new_time[1],
                     s.commitments \ {action.call}, <<new_load>>)
    IN IF action.action_idx = 1 /\ action.call \notin s.commitments
       THEN <<>>
       ELSE IF ~is_feasible(v, new_state) THEN <<>>
       ELSE <<new_state>>

perform(v, s, action) ==
  LET new_time == get_new_time(v, s, action) IN
  IF new_time = <<>> THEN <<>>
  ELSE
    LET new_load == load(s) + load_delta(action)
        new_state ==
          IF action.action_idx = 0
          THEN State(node(action), new_time[1],
                     s.commitments \cup {delivery_of(action)}, <<new_load>>)
          ELSE State(node(action), new_time[1],
                     s.commitments \ {action.call}, <<new_load>>)
    IN IF action.action_idx = 0 /\ action.call \notin compatible_calls(v)
       THEN <<>>
       ELSE IF action.action_idx = 1 /\ action.call \notin s.commitments
       THEN <<>>
       ELSE IF ~is_feasible(v, new_state) THEN <<>>
       ELSE <<new_state>>

\* the State perform was called on, after the call: its load is read
\* once get_new_time has given a time
perform_current(v, s, action) ==
  IF get_new_time(v, s, action) = <<>> THEN s ELSE load_read(s)

\* the State is_feasible was called on, after the call: its load is read
\* for the first delivery of a non-empty commitments
is_feasible_state(v, state) ==
  IF state.commitments = {} THEN state ELSE load_read(state)

(***************************************************************************)
(* The object store: st.heap and st.fsets.  New(st, s) is the effect of    *)
(* State.__init__: a new State object with its own empty _frontier set.    *)
(***************************************************************************)
New(st, s) ==
  [heap |-> Append(st.heap, [s EXCEPT !.frontier = Len(st.fsets) + 1]),
   fsets |-> Append(st.fsets, {})]

NewSet(st, S) == [st EXCEPT !.fsets = Append(@, S)]

(***************************************************************************)
(* Vehicle.expand: candidate actions from the current state, in the order  *)
(* the code scans them (set iteration visits small hashes in ascending     *)
(* order), each performed and, when feasible, stored in next_states.       *)
(***************************************************************************)
\* potential_actions that offers the pickup of every compatible call,
\* answered or not
potential_actions_answered(v, s, unanswered) ==
  LET ds == SeqOfCalls({c \in s.commitments :
                          Delivery(c) \notin Keys(s.next_states)})
      ps == SeqOfCalls({c \in compatible_calls(v) :
                          Pickup(c) \notin Keys(s.next_states)})
  IN [i \in 1 .. Len(ds) |-> Delivery(ds[i])]
     \o [i \in 1 .. Len(ps) |-> Pickup(ps[i])]

\* potential_actions that does not skip the actions already registered
potential_actions_no_skip(v, s, unanswered) ==
  LET ds == SeqOfCalls(s.commitments)
      ps == SeqOfCalls(compatible_calls(v) \cap unanswered)
  IN [i \in 1 .. Len(ds) |-> Delivery(ds[i])]
     \o [i \in 1 .. Len(ps) |-> Pickup(ps[i])]

potential_actions(v, s, unanswered) ==
  LET ds == SeqOfCalls({c \in s.commitments :
                          Delivery(c) \notin Keys(s.next_states)})
      ps == SeqOfCalls({c \in compatible_calls(v) \cap unanswered :
                          Pickup(c) \notin Keys(s.next_states)})
  IN [i \in 1 .. Len(ds) |-> Delivery(ds[i])]
     \o [i \in 1 .. Len(ps) |-> Pickup(ps[i])]

\* next_states[action] = state: a new key goes last, a key already there
\* keeps its place and gets the new value
set_item(ns, action, id) ==
  IF action \in Keys(ns)
  THEN [ns EXCEPT ![Child(ns, action)].state = id]
  ELSE Append(ns, [action |-> action, state |-> id])

\* the loop of expand leaving after the first branch it registers
RECURSIVE expand_loop_first(_, _, _, _, _)
expand_loop_first(st, v, cur, acts, i) ==
  IF i > Len(acts) THEN st
  ELSE LET resulting_state == perform(v, st.heap[cur], acts[i])
           st0 == [st EXCEPT !.heap[cur] = perform_current(v, @, acts[i])]
       IN
       IF resulting_state = <<>>
       THEN expand_loop_first(st0, v, cur, acts, i + 1)
       ELSE LET st1 == New(st0, resulting_state[1])
                id == Len(st1.heap)
            IN [st1 EXCEPT !.heap[cur].next_states =
                  set_item(@, acts[i], id)]

RECURSIVE expand_loop(_, _, _, _, _)
expand_loop(st, v, cur, acts, i) ==
  IF i > Len(acts) THEN st
  ELSE LET resulting_state == perform(v, st.heap[cur], acts[i])
           st0 == [st EXCEPT !.heap[cur] = perform_current(v, @, acts[i])]
       IN
       IF resulting_state = <<>> THEN expand_loop(st0, v, cur, acts, i + 1)
       ELSE LET st1 == New(st0, resulting_state[1])
                id == Len(st1.heap)
                st2 == [st1 EXCEPT !.heap[cur].next_states =
                          set_item(@, acts[i], id)]
            IN expand_loop(st2, v, cur, acts, i + 1)

expand(st, v, cur, unanswered) ==
  expand_loop(st, v, cur, potential_actions(v, st.heap[cur], unanswered), 1)

(***************************************************************************)
(* State.add_transition, State.select, State.remove, State.action_sequence *)
(***************************************************************************)
add_transition(st, id, action, next_state) ==
  LET ns == st.heap[id].next_states
      st1 == IF action \in Keys(ns)
             THEN [st EXCEPT !.heap[id].next_states[Child(ns, action)].state
                               = next_state]
             ELSE [st EXCEPT !.heap[id].next_states =
                               Append(@, [action |-> action,
                                          state |-> next_state])]
  IN [st1 EXCEPT !.fsets[st.heap[id].frontier] = @ \cup {next_state}]

\* State.select that records the selection before it tests the branch
state_select_mark_first(st, id, action) ==
  IF action \notin Keys(st.heap[id].next_states)
  THEN [st |-> [st EXCEPT !.heap[id].selected_action = action],
        raised |-> TRUE]
  ELSE
    LET child == Lookup(st.heap[id].next_states, action)
        st1 == [st EXCEPT !.heap[id].selected_action = action,
                          !.heap[id].next_state = child]
    IN IF st.heap[child].next_states # <<>>
       THEN [st |-> [st1 EXCEPT !.heap[id].frontier = st.heap[child].frontier],
             raised |-> FALSE]
       ELSE LET st2 == NewSet(st1, {child}) IN
            [st |-> [st2 EXCEPT !.heap[id].frontier = Len(st2.fsets)],
             raised |-> FALSE]

state_select(st, id, action) ==
  IF action \notin Keys(st.heap[id].next_states)
  THEN [st |-> st, raised |-> TRUE]
  ELSE
    LET child == Lookup(st.heap[id].next_states, action)
        st1 == [st EXCEPT !.heap[id].selected_action = action,
                          !.heap[id].next_state = child]
    IN IF st.heap[child].next_states # <<>>
       THEN [st |-> [st1 EXCEPT !.heap[id].frontier = st.heap[child].frontier],
             raised |-> FALSE]
       ELSE LET st2 == NewSet(st1, {child}) IN
            [st |-> [st2 EXCEPT !.heap[id].frontier = Len(st2.fsets)],
             raised |-> FALSE]

RECURSIVE state_remove(_, _, _)
RECURSIVE remove_children(_, _, _, _)
remove_children(st, kids, i, call) ==
  IF i > Len(kids) THEN st
  ELSE remove_children(state_remove(st, kids[i].state, call), kids, i + 1, call)

\* State.remove that prunes the node's own child map only
state_remove_shallow(st, id, call) ==
  LET kept == SelectSeq(st.heap[id].next_states,
                        LAMBDA e : e.action.call # call)
      st1 == [st EXCEPT !.heap[id].next_states = kept]
      st3 == NewSet(st1, Values(kept))
  IN [st3 EXCEPT !.heap[id].frontier = Len(st3.fsets)]

state_remove(st, id, call) ==
  LET kept == SelectSeq(st.heap[id].next_states,
                        LAMBDA e : e.action.call # call)
      st1 == [st EXCEPT !.heap[id].next_states = kept]
      st2 == remove_children(st1, kept, 1, call)
      st3 == NewSet(st2, Values(kept))
  IN [st3 EXCEPT !.heap[id].frontier = Len(st3.fsets)]

RECURSIVE action_sequence(_, _)
action_sequence(st, id) ==
  IF st.heap[id].selected_action = NoAction THEN <<>>
  ELSE <<st.heap[id].selected_action>>
       \o action_sequence(st, st.heap[id].next_state)

\* State.action_sequence() as Vehicle.action_sequence calls it: a method of
\* the State; src/ has the property of that name and no such method
action_sequence_method(st, id) == action_sequence(st, id)

\* Vehicle.action_sequence
vehicle_action_sequence(st, root) == action_sequence_method(st, root)

\* State.local_frontier: the stored set object, or {self} for a leaf
local_frontier(st, id) ==
  IF st.heap[id].next_states # <<>> THEN st.fsets[st.heap[id].frontier]
  ELSE {id}

\* the States of S in the order in which the set S is iterated: a set of
\* States is visited by hash, which is the address of the object, so the
\* order is a choice (order lists the States of the store)
InOrder(S, order) == SelectSeq(order, LAMBDA x : x \in S)

\* every order of the States of S
RECURSIVE Orders(_)
Orders(S) ==
  IF S = {} THEN {<<>>}
  ELSE UNION {{<<x>> \o o : o \in Orders(S \ {x})} : x \in S}

\* State.frontier: a leaf of local_frontier is kept, any other State gives
\* its own frontier (read in turn, which stores it there); the result is a
\* new set object stored in _frontier.  frontier_loop is the for loop.  A
\* State that is not a leaf and is met again while its own frontier is
\* being computed makes the recursion endless: RecursionError, with the
\* stores already made by the reads that had returned.
RECURSIVE state_frontier(_, _, _, _)
RECURSIVE frontier_loop(_, _, _, _, _, _)
frontier_loop(st, states, i, new_frontier, stack, order) ==
  IF i > Len(states)
  THEN [st |-> st, result |-> new_frontier, raised |-> FALSE]
  ELSE IF st.heap[states[i]].next_states = <<>>
       THEN frontier_loop(st, states, i + 1, new_frontier \cup {states[i]},
                          stack, order)
       ELSE LET r == state_frontier(st, states[i], stack, order) IN
            IF r.raised THEN r
            ELSE frontier_loop(r.st, states, i + 1,
                               new_frontier \cup r.result, stack, order)

state_frontier(st, id, stack, order) ==
  IF id \in stack THEN [st |-> st, result |-> {}, raised |-> TRUE]
  ELSE LET r == frontier_loop(st, InOrder(local_frontier(st, id), order), 1,
                              {}, stack \cup {id}, order)
           st1 == NewSet(r.st, r.result)
       IN IF r.raised THEN r
          ELSE [st |-> [st1 EXCEPT !.heap[id].frontier = Len(st1.fsets)],
                result |-> r.result, raised |-> FALSE]

\* the States of a tree: closure of a set of States under the child maps
RECURSIVE Close(_, _)
Close(st, S) ==
  LET S2 == S \cup (UNION {Values(st.heap[i].next_states) : i \in S})
  IN IF S2 = S THEN S ELSE Close(st, S2)

\* the States of the tree below root: reachable through the child maps
Tree(st, root) == Close(st, {root})

(***************************************************************************)
(* Vehicle.select and Vehicle.remove.  vehicle_select returns the store,   *)
(* the vehicle's current_state and route_length after the call, and        *)
(* whether State.select raised ValueError.                                 *)
(***************************************************************************)
\* Vehicle.select that does not advance current_state
vehicle_select_stay(st, cur, rl, action) ==
  LET r == state_select(st, cur, action) IN
  IF r.raised
  THEN [st |-> r.st, current_state |-> cur, route_length |-> rl,
        raised |-> TRUE]
  ELSE [st |-> r.st, current_state |-> cur,
        route_length |-> rl + 1, raised |-> FALSE]

vehicle_select(st, cur, rl, action) ==
  LET r == state_select(st, cur, action) IN
  IF r.raised
  THEN [st |-> r.st, current_state |-> cur, route_length |-> rl,
        raised |-> TRUE]
  ELSE [st |-> r.st, current_state |-> r.st.heap[cur].next_state,
        route_length |-> rl + 1, raised |-> FALSE]

vehicle_remove(st, root, call) == state_remove(st, root, call)

(***************************************************************************)
(* delete_children (utils/search/search_utils.py) and Vehicle.reset, which *)
(* applies it to initial_state.  vehicle_reset returns the store and the   *)
(* vehicle's current_state and route_length after the call.                *)
(***************************************************************************)
\* delete_children that leaves selected_action and next_state as they are
delete_children_keep_selection(st, id) ==
  [st EXCEPT !.heap[id].next_states = <<>>]

RECURSIVE delete_children(_, _)
RECURSIVE delete_loop(_, _, _)
delete_loop(st, kids, i) ==
  IF i > Len(kids) THEN st
  ELSE delete_loop(delete_children(st, kids[i].state), kids, i + 1)

delete_children(st, id) ==
  LET st1 == delete_loop(st, st.heap[id].next_states, 1) IN
  [st1 EXCEPT !.heap[id].next_states = <<>>,
              !.heap[id].selected_action = NoAction,
              !.heap[id].next_state = None]

\* State.delete_children() as Vehicle.reset calls it: a method of the root
\* State; src/ has the function delete_children(state) and no such method
state_delete_children(st, id) == delete_children(st, id)

vehicle_reset(st, root) ==
  [st |-> state_delete_children(st, root), current_state |-> root,
   route_length |-> 0]

(***************************************************************************)
(* Vehicle.cost and get_cost: the cost of a vehicle's committed route and  *)
(* of the whole solution.                                                  *)
(***************************************************************************)
\* Vehicle.cost that charges every leg from the node it was at before
RECURSIVE cost_loop_stale_node(_, _, _, _, _)
cost_loop_stale_node(v, seq, i, current_node, total_cost) ==
  IF i > Len(seq) THEN total_cost
  ELSE LET action == seq[i] IN
       cost_loop_stale_node(v, seq, i + 1, current_node,
                 total_cost + travel_costs(v, current_node, node(action))
                            + service_costs(v, action.call, action.action_idx)
                            - (void_cost(action.call) \div 2))

RECURSIVE cost_loop(_, _, _, _, _)
cost_loop(v, seq, i, current_node, total_cost) ==
  IF i > Len(seq) THEN total_cost
  ELSE LET action == seq[i] IN
       cost_loop(v, seq, i + 1, node(action),
                 total_cost + travel_costs(v, current_node, node(action))
                            + service_costs(v, action.call, action.action_idx)
                            - (void_cost(action.call) \div 2))

cost(st, v, root) ==
  cost_loop(v, vehicle_action_sequence(st, root), 1, st.heap[root].node, 0)

RECURSIVE SumVoid(_)
SumVoid(S) ==
  IF S = {} THEN 0
  ELSE LET c == CHOOSE x \in S : TRUE IN void_cost(c) + SumVoid(S \ {c})

RECURSIVE SumCost(_, _, _)
SumCost(st, roots, v) ==
  IF v >= NumVehicles THEN 0
  ELSE cost(st, v, roots[v]) + SumCost(st, roots, v + 1)

\* get_cost that forgets the void cost of the calls
get_cost_no_void(st, roots) == SumCost(st, roots, 0)

get_cost(st, roots) == SumVoid(Calls) + SumCost(st, roots, 0)

(***************************************************************************)
(* Objects nothing refers to are garbage: the store is kept with the live  *)
(* objects only.  A State is live when a vehicle's initial_state reaches   *)
(* it through child maps, next_state pointers or stored frontier sets;     *)
(* live States keep their order of creation, live set objects are numbered *)
(* by the first State that holds them.                                     *)
(***************************************************************************)
RECURSIVE CloseAll(_, _)
CloseAll(st, S) ==
  LET S2 == S \cup (UNION {Values(st.heap[i].next_states) : i \in S})
              \cup ({st.heap[i].next_state : i \in S} \ {None})
              \cup (UNION {st.fsets[st.heap[i].frontier] : i \in S})
  IN IF S2 = S THEN S ELSE CloseAll(st, S2)

\* the States reachable from root through child maps, next_state pointers
\* and stored frontier sets
Reachable(st, root) == CloseAll(st, {root})

Live(st) == CloseAll(st, 1 .. NumVehicles)

\* the index of each live State once the garbage is gone
NewId(st) ==
  LET live == Live(st) IN
  [i \in live |-> Cardinality({j \in live : j <= i})]

Canon(st) ==
  LET H == st.heap
      live == Live(st)
      newId == [i \in live |-> Cardinality({j \in live : j <= i})]
      old == [r \in 1 .. Cardinality(live) |->
                CHOOSE i \in live : newId[i] = r]
      used == {H[i].frontier : i \in live}
      first == [k \in used |->
                  CHOOSE i \in live :
                    /\ H[i].frontier = k
                    /\ \A j \in live : H[j].frontier = k => i <= j]
      rank == [k \in used |->
                 Cardinality({k2 \in used : first[k2] <= first[k]})]
      byRank == [r \in 1 .. Cardinality(used) |->
                   CHOOSE k \in used : rank[k] = r]
  IN [heap |-> [r \in 1 .. Cardinality(live) |->
                  LET s == H[old[r]] IN
                  [s EXCEPT
                     !.next_states =
                        [k \in DOMAIN s.next_states |->
                           [action |-> s.next_states[k].action,
                            state |-> newId[s.next_states[k].state]]],
                     !.next_state = IF @ = None THEN None ELSE newId[@],
                     !.frontier = rank[@]]],
      fsets |-> [r \in 1 .. Cardinality(used) |->
                   {newId[i] : i \in st.fsets[byRank[r]]}]]

Store == [heap |-> heap, fsets |-> fsets]

\* the store and the vehicles' current_state after an operation
\* (an operation that left every object as it was leaves no garbage and
\* needs no renumbering)
SetStore(st, cs) ==
  IF st = Store
  THEN /\ heap' = heap
       /\ fsets' = fsets
       /\ current_state' = cs
  ELSE LET canon == Canon(st)
           newId == NewId(st)
       IN /\ heap' = canon.heap
          /\ fsets' = canon.fsets
          /\ current_state' = [v \in Vehicles |-> newId[cs[v]]]

(***************************************************************************)
(* Solver.__init__ / load_problem: one root State per vehicle (its _load   *)
(* is None), current_state = initial_state, route_length = 0, every call   *)
(* unanswered.                                                             *)
(***************************************************************************)
\* Vehicle.__init__: the vehicle stands at the State it is given
vehicle_init(state) ==
  [initial_state |-> state, current_state |-> state, route_length |-> 0]

\* load_problem's Vehicle(state = ...): the State built for the vehicle is
\* the one Vehicle.__init__ takes as initial_state; src/ has no Vehicle that
\* takes the keyword state
load_vehicle(v) == vehicle_init(v + 1)

InitObjects ==
  /\ inst \in Instances
  /\ heap = [i \in 1 .. NumVehicles |->
               [State(start_node(i - 1), start_time(i - 1), {}, <<>>)
                  EXCEPT !.frontier = i]]
  /\ fsets = [i \in 1 .. NumVehicles |-> {}]
  /\ initial_state = [v \in Vehicles |-> load_vehicle(v).initial_state]
  /\ current_state = [v \in Vehicles |-> load_vehicle(v).current_state]
  /\ route_length = [v \in Vehicles |-> load_vehicle(v).route_length]
  /\ unanswered_calls = Calls
  /\ error = "none"
  /\ selected = [v \in Vehicles |-> <<>>]
  /\ last = [op |-> "init", vehicle |-> -1, action |-> NoAction, call |-> -1]

Init ==
  InitObjects /\ pc = "start" /\ multi = NoMulti /\ beam = NoBeam /\ objs = <<>>

(***************************************************************************)
(* SelectionSolver.solve.                                                  *)
(***************************************************************************)
\* get_active_vehicles that looks at the first vehicle only
get_active_vehicles_first ==
  {v \in Vehicles : v = 0 /\ heap[current_state[v]].next_states # <<>>}

get_active_vehicles ==
  {v \in Vehicles : heap[current_state[v]].next_states # <<>>}

RECURSIVE expand_all(_, _)
expand_all(st, v) ==
  IF v >= NumVehicles THEN st
  ELSE expand_all(expand(st, v, current_state[v], unanswered_calls), v + 1)

\* the loop over the other vehicles left out
remove_others_none(st, v, selected_vehicle, call) == st

RECURSIVE remove_others(_, _, _, _)
remove_others(st, v, selected_vehicle, call) ==
  IF v >= NumVehicles THEN st
  ELSE IF v = selected_vehicle
       THEN remove_others(st, v + 1, selected_vehicle, call)
       ELSE remove_others(vehicle_remove(st, initial_state[v], call),
                          v + 1, selected_vehicle, call)

SolveStart ==
  /\ pc = "start"
  /\ SetStore(expand_all(Store, 0), current_state)
  /\ pc' = "loop"
  /\ last' = [op |-> "expand_all", vehicle |-> -1, action |-> NoAction,
              call |-> -1]
  /\ UNCHANGED <<inst, initial_state, route_length, unanswered_calls, error,
                 selected, multi, beam, objs>>

SolveStep(selected_vehicle, selected_action) ==
  /\ pc = "loop"
  /\ selected_vehicle \in get_active_vehicles
  /\ selected_action \in Keys(heap[current_state[selected_vehicle]].next_states)
  /\ LET r == vehicle_select(Store, current_state[selected_vehicle],
                             route_length[selected_vehicle], selected_action)
         unanswered == unanswered_calls \ {selected_action.call}
         st2 == expand(r.st, selected_vehicle, r.current_state, unanswered)
         st3 == IF selected_action.action_idx = 1 THEN st2
                ELSE remove_others(st2, 0, selected_vehicle,
                                   selected_action.call)
     IN /\ SetStore(st3, [current_state EXCEPT
                                ![selected_vehicle] = r.current_state])
        /\ route_length' =
             [route_length EXCEPT ![selected_vehicle] = r.route_length]
        /\ unanswered_calls' = unanswered
  /\ selected' = [selected EXCEPT ![selected_vehicle] =
                    Append(@, selected_action)]
  /\ last' = [op |-> "step", vehicle |-> selected_vehicle,
              action |-> selected_action, call |-> selected_action.call]
  /\ UNCHANGED <<inst, initial_state, pc, error, multi, beam, objs>>

SolveDone ==
  /\ pc = "loop"
  /\ get_active_vehicles = {}
  /\ pc' = "done"
  /\ last' = [op |-> "return", vehicle |-> -1, action |-> NoAction,
              call |-> -1]
  /\ UNCHANGED <<inst, heap, fsets, initial_state, current_state,
                 route_length, unanswered_calls, error, selected, multi, beam, objs>>

Next ==
  \/ SolveStart
  \/ \E v \in Vehicles, a \in Actions : SolveStep(v, a)
  \/ SolveDone

Spec == Init /\ [][Next]_vars

(***************************************************************************)
(* solve is a synchronous loop: nothing suspends it, so a run that can     *)
(* take a step takes one.  Every step of Next changes pc or lengthens a    *)
(* route, and one is possible exactly while pc is not "done"; the fairness *)
(* condition is stated on that change.                                     *)
(***************************************************************************)
Advance ==
  /\ pc # "done"
  /\ pc' \in {"start", "loop", "done"}
  /\ route_length' \in [Vehicles -> 0 .. (2 * NumCalls)]

SpecFair == Spec /\ WF_<<pc, route_length>>(Advance)

(***************************************************************************)
(* The selection policies (solvers/selection_solvers).  Each solver        *)
(* defines select_vehicle_action(active_vehicles); solve asks for          *)
(* select_vehicle and select_action, taken as the two halves of that pair. *)
(* The scan visits the active vehicles by index and each vehicle's         *)
(* branches in the order they were registered; the comparison is strict,   *)
(* so the first minimal pair wins.                                         *)
(***************************************************************************)
\* the scan reading the branches of initial_state instead of current_state
RECURSIVE Choices_initial(_)
Choices_initial(v) ==
  IF v >= NumVehicles THEN <<>>
  ELSE LET ns == heap[initial_state[v]].next_states IN
       [k \in 1 .. Len(ns) |->
          [vehicle |-> v, action |-> ns[k].action, state |-> ns[k].state]]
       \o Choices_initial(v + 1)

RECURSIVE Choices(_)
Choices(v) ==
  IF v >= NumVehicles THEN <<>>
  ELSE LET ns == heap[current_state[v]].next_states IN
       [k \in 1 .. Len(ns) |->
          [vehicle |-> v, action |-> ns[k].action, state |-> ns[k].state]]
       \o Choices(v + 1)

\* a scan that compares with <= and so ends on the last of the smallest keys
FirstMin_last(keys) ==
  CHOOSE i \in DOMAIN keys :
    \A j \in DOMAIN keys :
      /\ keys[i] <= keys[j]
      /\ j > i => keys[j] > keys[i]

\* the position the scan ends on: the first of the smallest keys
FirstMin(keys) ==
  CHOOSE i \in DOMAIN keys :
    \A j \in DOMAIN keys :
      /\ keys[i] <= keys[j]
      /\ j < i => keys[j] > keys[i]

\* TimeGreedySolver: next_state.time - current_time
action_rate(e) == heap[e.state].time - heap[current_state[e.vehicle]].time

\* CostGreedySolver: vehicle.get_action_cost(action), the immediate marginal
\* cost of the action
get_action_cost(e) ==
  travel_costs(e.vehicle, heap[current_state[e.vehicle]].node, node(e.action))
  + service_costs(e.vehicle, e.action.call, e.action.action_idx)
  - (void_cost(e.action.call) \div 2)

\* GreedySolver (greedy_solver.py): min over the active vehicles of
\* cost / max(1, route_length), compared by cross-multiplication; min
\* returns the first of the smallest
max1(n) == IF n < 1 THEN 1 ELSE n

mean_cost_le(v, w) ==
  cost(Store, v, initial_state[v]) * max1(route_length[w])
    <= cost(Store, w, initial_state[w]) * max1(route_length[v])

greedy_vehicle ==
  CHOOSE v \in get_active_vehicles :
    \A w \in get_active_vehicles :
      /\ mean_cost_le(v, w)
      /\ w < v => ~mean_cost_le(w, v)

\* GreedySolver's key of an action of the vehicle it selected
greedy_key(e) ==
  travel_costs(e.vehicle, heap[current_state[e.vehicle]].node, node(e.action))
  + service_costs(e.vehicle, e.action.call, e.action.action_idx)
  - (void_cost(e.action.call) \div 2)

greedy_select_vehicle_action ==
  LET ns == heap[current_state[greedy_vehicle]].next_states
      own == [k \in 1 .. Len(ns) |->
                [vehicle |-> greedy_vehicle, action |-> ns[k].action,
                 state |-> ns[k].state]]
  IN own[FirstMin([i \in DOMAIN own |-> greedy_key(own[i])])]

\* the pairs the solver may return
select_vehicle_action(solver) ==
  LET choices == Choices(0) IN
  IF solver = "GreedySolver" THEN {greedy_select_vehicle_action} ELSE
  IF solver = "TimeGreedySolver"
  THEN {choices[FirstMin([i \in DOMAIN choices |->
                                action_rate(choices[i])])]}
  ELSE IF solver = "CostGreedySolver"
  THEN {choices[FirstMin([i \in DOMAIN choices |->
                                get_action_cost(choices[i])])]}
  ELSE {choices[i] : i \in DOMAIN choices}

\* select_vehicle and select_action as solve calls them: src/ declares them
\* abstract and the solvers define select_vehicle_action only; they are
\* the two halves of the pair it returns
select_vehicle(solver) == {e.vehicle : e \in select_vehicle_action(solver)}

select_action(solver, vehicle) ==
  {e.action : e \in {x \in select_vehicle_action(solver) :
                        x.vehicle = vehicle}}

(***************************************************************************)
(* Solver.multi_solve(n), Solver.reset and Solver.get_action_sequences     *)
(* (solvers/base_solver.py).  A trial is a run of solve; the step after    *)
(* its return evaluates get_cost, keeps the result when it is strictly     *)
(* cheaper than the best so far, and resets the solver.  multi.history     *)
(* records the cost and the action sequences of each trial.                *)
(***************************************************************************)
Solvers ==
  {"RandomSolver", "CostGreedySolver", "TimeGreedySolver", "GreedySolver"}

get_action_sequences(st) ==
  [i \in 1 .. NumVehicles |->
     vehicle_action_sequence(st, initial_state[i - 1])]

RECURSIVE reset_all(_, _)
reset_all(st, v) ==
  IF v >= NumVehicles THEN st
  ELSE reset_all(vehicle_reset(st, initial_state[v]).st, v + 1)

\* Solver.reset that leaves unanswered_calls as the trial left it
solver_reset_keep_unanswered(st) ==
  [st |-> reset_all(st, 0),
   current_state |-> initial_state,
   route_length |-> [v \in Vehicles |-> 0],
   unanswered_calls |-> unanswered_calls]

solver_reset(st) ==
  [st |-> reset_all(st, 0),
   current_state |-> initial_state,
   route_length |-> [v \in Vehicles |-> 0],
   unanswered_calls |-> Calls]

\* the random policy is run on the instances with the longest travel time
InitMulti ==
  /\ InitObjects
  /\ beam = NoBeam
  /\ objs = <<>>
  /\ pc = "start"
  /\ \E solver \in Solvers, n \in 1 .. MaxTrials :
       /\ solver = "RandomSolver" => inst.tt = MaxTravel
       /\ multi = [solver |-> solver, n |-> n, trial |-> 0,
                   best_cost |-> <<>>, best_action_sequence |-> <<>>,
                   history |-> <<>>]

MultiStep(selected_vehicle, selected_action) ==
  /\ pc = "loop"
  /\ get_active_vehicles # {}
  /\ selected_vehicle \in select_vehicle(multi.solver)
  /\ selected_action \in select_action(multi.solver, selected_vehicle)
  /\ SolveStep(selected_vehicle, selected_action)

\* multi_solve that keeps a trial whose cost equals the best so far
MultiTrialEnd_keep_last ==
  /\ pc = "done"
  /\ LET action_sequence_ == get_action_sequences(Store)
         cost_ == get_cost(Store, initial_state)
         better == multi.best_cost = <<>> \/ cost_ <= multi.best_cost[1]
         r == solver_reset(Store)
     IN /\ multi' =
             [multi EXCEPT
                !.best_cost = IF better THEN <<cost_>> ELSE @,
                !.best_action_sequence =
                   IF better THEN action_sequence_ ELSE @,
                !.trial = @ + 1,
                !.history = Append(@, [cost |-> cost_,
                                       action_sequence |-> action_sequence_])]
        /\ SetStore(r.st, r.current_state)
        /\ route_length' = r.route_length
        /\ unanswered_calls' = r.unanswered_calls
  /\ selected' = [v \in Vehicles |-> <<>>]
  /\ pc' = IF multi.trial + 1 < multi.n THEN "start" ELSE "returned"
  /\ last' = Op("trial", -1, NoAction, -1)
  /\ UNCHANGED <<inst, initial_state, error, beam, objs>>

MultiTrialEnd ==
  /\ pc = "done"
  /\ LET action_sequence_ == get_action_sequences(Store)
         cost_ == get_cost(Store, initial_state)
         better == multi.best_cost = <<>> \/ cost_ < multi.best_cost[1]
         r == solver_reset(Store)
     IN /\ multi' =
             [multi EXCEPT
                !.best_cost = IF better THEN <<cost_>> ELSE @,
                !.best_action_sequence =
                   IF better THEN action_sequence_ ELSE @,
                !.trial = @ + 1,
                !.history = Append(@, [cost |-> cost_,
                                       action_sequence |-> action_sequence_])]
        /\ SetStore(r.st, r.current_state)
        /\ route_length' = r.route_length
        /\ unanswered_calls' = r.unanswered_calls
  /\ selected' = [v \in Vehicles |-> <<>>]
  /\ pc' = IF multi.trial + 1 < multi.n THEN "start" ELSE "returned"
  /\ last' = Op("trial", -1, NoAction, -1)
  /\ UNCHANGED <<inst, initial_state, error, beam, objs>>

NextMulti ==
  \/ SolveStart
  \/ \E v \in Vehicles, a \in Actions : MultiStep(v, a)
  \/ SolveDone
  \/ MultiTrialEnd

SpecMulti == InitMulti /\ [][NextMulti]_vars

(***************************************************************************)
(* The Vehicle / State interface used directly, in any order: the          *)
(* operations a caller other than solve (a search solver, a test) applies  *)
(* to a vehicle's tree.  The interface is exercised on the vehicle that   *)
(* may serve every call, with the largest capacity, zero travel time and   *)
(* the widest delivery windows, so that every branch can be built.         *)
(***************************************************************************)
ApiVehicles == {v \in Vehicles : compatible_calls(v) = Calls}

InitApi ==
  /\ InitObjects
  /\ inst.cap = MaxCapacity
  /\ inst.tt = 0
  /\ inst.dl = MaxLatest
  /\ pc = "api"
  /\ multi = NoMulti
  /\ beam = NoBeam
  /\ objs = <<>>

ApiExpand(v, unanswered) ==
  /\ pc = "api"
  /\ LET st == expand(Store, v, current_state[v], unanswered) IN
     /\ Len(st.heap) <= NumVehicles + MaxNodes
     /\ SetStore(st, current_state)
  /\ error' = "none"
  /\ last' = Op("expand", v, NoAction, -1)
  /\ UNCHANGED <<inst, initial_state, route_length, unanswered_calls, pc,
                 selected, multi, beam, objs>>

ApiSelect(v, action) ==
  /\ pc = "api"
  /\ LET r == vehicle_select(Store, current_state[v], route_length[v], action)
     IN /\ SetStore(r.st, [current_state EXCEPT ![v] = r.current_state])
        /\ route_length' = [route_length EXCEPT ![v] = r.route_length]
        /\ error' = IF r.raised THEN "ValueError" ELSE "none"
        /\ selected' = IF r.raised THEN selected
                       ELSE [selected EXCEPT ![v] = Append(@, action)]
  /\ last' = Op("select", v, NoAction, -1)
  /\ UNCHANGED <<inst, initial_state, unanswered_calls, pc, multi, beam, objs>>

ApiRemove(v, call) ==
  /\ pc = "api"
  /\ SetStore(vehicle_remove(Store, initial_state[v], call), current_state)
  /\ error' = "none"
  /\ last' = Op("remove", v, NoAction, -1)
  /\ UNCHANGED <<inst, initial_state, route_length, unanswered_calls, pc,
                 selected, multi, beam, objs>>

ApiAddTransition(v, id, action) ==
  /\ pc = "api"
  /\ id \in Tree(Store, initial_state[v]) \cup {current_state[v]}
  /\ action \notin Keys(heap[id].next_states)
  /\ LET resulting_state == perform(v, heap[current_state[v]], action)
         st0 == [Store EXCEPT !.heap[current_state[v]] =
                   perform_current(v, @, action)]
     IN
     IF resulting_state = <<>>
     THEN SetStore(st0, current_state)
     ELSE /\ Len(heap) < NumVehicles + MaxNodes
          /\ LET st1 == New(st0, resulting_state[1]) IN
             SetStore(add_transition(st1, id, action, Len(st1.heap)),
                      current_state)
  /\ error' = "none"
  /\ last' = Op("add_transition", v, NoAction, -1)
  /\ UNCHANGED <<inst, initial_state, route_length, unanswered_calls, pc,
                 selected, multi, beam, objs>>

ApiReset(v) ==
  /\ pc = "api"
  /\ LET r == vehicle_reset(Store, initial_state[v]) IN
     /\ SetStore(r.st, [current_state EXCEPT ![v] = r.current_state])
     /\ route_length' = [route_length EXCEPT ![v] = r.route_length]
  /\ selected' = [selected EXCEPT ![v] = <<>>]
  /\ error' = "none"
  /\ last' = Op("reset", v, NoAction, -1)
  /\ UNCHANGED <<inst, initial_state, unanswered_calls, pc, multi, beam, objs>>

\* one iteration of the loop of SelectionSolver.solve on the vehicles as
\* they are: the selected branch is taken, its call is answered, the
\* vehicle is expanded and, after a Pickup, the call is removed from the others
ApiSolveStep(selected_vehicle, selected_action) ==
  /\ pc = "api"
  /\ selected_vehicle \in get_active_vehicles
  /\ selected_action \in Keys(heap[current_state[selected_vehicle]].next_states)
  /\ LET r == vehicle_select(Store, current_state[selected_vehicle],
                             route_length[selected_vehicle], selected_action)
         unanswered == unanswered_calls \ {selected_action.call}
         st2 == expand(r.st, selected_vehicle, r.current_state, unanswered)
         st3 == IF selected_action.action_idx = 1 THEN st2
                ELSE remove_others(st2, 0, selected_vehicle,
                                   selected_action.call)
     IN /\ Len(st3.heap) <= NumVehicles + MaxNodes
        /\ SetStore(st3, [current_state EXCEPT
                                ![selected_vehicle] = r.current_state])
        /\ route_length' =
             [route_length EXCEPT ![selected_vehicle] = r.route_length]
        /\ unanswered_calls' = unanswered
  /\ selected' = [selected EXCEPT ![selected_vehicle] =
                    Append(@, selected_action)]
  /\ error' = "none"
  /\ last' = Op("solve_step", selected_vehicle, selected_action,
                selected_action.call)
  /\ UNCHANGED <<inst, initial_state, pc, multi, beam, objs>>

\* Solver.reset; last.call is the number of calls that were answered
ApiSolverReset ==
  /\ pc = "api"
  /\ LET r == solver_reset(Store) IN
     /\ SetStore(r.st, r.current_state)
     /\ route_length' = r.route_length
     /\ unanswered_calls' = r.unanswered_calls
  /\ selected' = [v \in Vehicles |-> <<>>]
  /\ error' = "none"
  /\ last' = Op("solver_reset", -1, NoAction,
                Cardinality(Calls \ unanswered_calls))
  /\ UNCHANGED <<inst, initial_state, pc, multi, beam, objs>>

\* a read of the property State.frontier of a State of the store; the
\* order of iteration is observable only when the read raises, and then
\* only the order of the States that are not leaves (a leaf met in the
\* loop stores nothing)
ApiFrontier(id, order) ==
  /\ pc = "api"
  /\ LET r == state_frontier(Store, id, {}, order) IN
     /\ SetStore(r.st, current_state)
     /\ error' = IF r.raised THEN "RecursionError" ELSE "none"
  /\ last' = Op("frontier", -1, NoAction, -1)
  /\ UNCHANGED <<inst, initial_state, route_length, unanswered_calls, pc,
                 selected, multi, beam, objs>>

\* a read of the property State.load of a State of the store
ApiLoad(id) ==
  /\ pc = "api"
  /\ heap' = [heap EXCEPT ![id] = load_read(@)]
  /\ error' = "none"
  /\ last' = Op("load", -1, NoAction, -1)
  /\ UNCHANGED <<inst, fsets, initial_state, current_state, route_length,
                 unanswered_calls, pc, selected, multi, beam, objs>>

NextApi ==
  \/ \E id \in DOMAIN heap :
       LET leaves == {i \in DOMAIN heap : heap[i].next_states = <<>>}
           ascending == SeqOfCalls(DOMAIN heap)
       IN IF state_frontier(Store, id, {}, ascending).raised
          THEN \E order \in Orders(DOMAIN heap \ leaves) :
                 ApiFrontier(id, SeqOfCalls(leaves) \o order)
          ELSE ApiFrontier(id, ascending)
  \/ \E id \in DOMAIN heap : ApiLoad(id)
  \/ \E v \in ApiVehicles, U \in SUBSET Calls : ApiExpand(v, U)
  \/ \E v \in ApiVehicles, a \in Actions : ApiSelect(v, a)
  \/ \E v \in ApiVehicles, c \in Calls : ApiRemove(v, c)
  \/ \E v \in ApiVehicles : ApiReset(v)
  \/ \E v \in ApiVehicles, id \in 1 .. (NumVehicles + MaxNodes), a \in Actions :
       ApiAddTransition(v, id, a)

SpecApi == InitApi /\ [][NextApi]_vars

\* the operations alone (expand, select, remove, reset and the loop body of
\* expand_state), without reads of the properties of a State
NextVehicle ==
  \/ \E v \in ApiVehicles, U \in SUBSET Calls : ApiExpand(v, U)
  \/ \E v \in ApiVehicles, a \in Actions : ApiSelect(v, a)
  \/ \E v \in ApiVehicles, c \in Calls : ApiRemove(v, c)
  \/ \E v \in ApiVehicles : ApiReset(v)
  \/ \E v \in ApiVehicles, id \in 1 .. (NumVehicles + MaxNodes), a \in Actions :
       ApiAddTransition(v, id, a)

SpecVehicle == InitApi /\ [][NextVehicle]_vars

\* the operations of a Vehicle together with those of the Solver that owns
\* it: an iteration of solve, which answers a call, and Solver.reset
NextSolver ==
  \/ \E v \in ApiVehicles, U \in SUBSET Calls : ApiExpand(v, U)
  \/ \E v \in ApiVehicles, a \in Actions : ApiSelect(v, a)
  \/ \E v \in ApiVehicles, c \in Calls : ApiRemove(v, c)
  \/ \E v \in ApiVehicles : ApiReset(v)
  \/ \E v \in Vehicles, a \in Actions : ApiSolveStep(v, a)
  \/ ApiSolverReset

SpecSolver == InitApi /\ [][NextSolver]_vars

(***************************************************************************)
(* Vehicle.perform and Vehicle.is_feasible on their own: the vehicle       *)
(* stands at a State a caller built (any node, time and set of open        *)
(* deliveries, its load given or left to be computed) and perform is       *)
(* applied to it; the State returned becomes the next one to stand at.     *)
(***************************************************************************)
InitPure ==
  /\ inst \in Instances
  /\ \E n \in Nodes, t \in 0 .. MaxTime, C \in SUBSET Calls :
       \E l \in {<<>>, <<SumSizes(C)>>} :
         heap = <<[State(n, t, C, l) EXCEPT !.frontier = 1]>>
  /\ fsets = <<{}>>
  /\ initial_state = [v \in Vehicles |-> 1]
  /\ current_state = [v \in Vehicles |-> 1]
  /\ route_length = [v \in Vehicles |-> 0]
  /\ unanswered_calls = Calls
  /\ error = "none"
  /\ selected = [v \in Vehicles |-> <<>>]
  /\ last = Op("init", -1, NoAction, -1)
  /\ pc = "pure"
  /\ multi = NoMulti
  /\ beam = NoBeam
  /\ objs = <<>>

PurePerform(v, action) ==
  /\ pc = "pure"
  /\ LET s == heap[current_state[v]]
         resulting_state == perform(v, s, action)
     IN IF resulting_state = <<>>
        THEN /\ heap' = [heap EXCEPT ![current_state[v]] =
                           perform_current(v, s, action)]
             /\ last' = Op("perform_none", v, action, action.call)
        ELSE /\ heap' = <<[resulting_state[1] EXCEPT !.frontier = 1]>>
             /\ last' = Op("perform", v, action, action.call)
  /\ UNCHANGED <<inst, fsets, initial_state, current_state, route_length,
                 unanswered_calls, pc, error, selected, multi, beam, objs>>

\* is_feasible called on the State the vehicle stands at
PureIsFeasible(v) ==
  /\ pc = "pure"
  /\ heap' = [heap EXCEPT ![current_state[v]] = is_feasible_state(v, @)]
  /\ last' = Op("is_feasible", v, NoAction,
                IF is_feasible(v, heap[current_state[v]]) THEN 1 ELSE 0)
  /\ UNCHANGED <<inst, fsets, initial_state, current_state, route_length,
                 unanswered_calls, pc, error, selected, multi, beam, objs>>

NextPure ==
  \/ \E v \in Vehicles, a \in Actions : PurePerform(v, a)
  \/ \E v \in Vehicles : PureIsFeasible(v)

SpecPure == InitPure /\ [][NextPure]_vars

(***************************************************************************)
(* beam_search (beam_search.py).  States are numbers, as is_terminal and   *)
(* the example successor function require; a beam entry is the tuple       *)
(* (cost, state, sequence).  The successor functions tried are the         *)
(* module's expand_state and three others: a fork with two successors of   *)
(* different cost, a function with a dead end below the terminal states,   *)
(* and a fork whose successors cost the same.  Tokens are numbers.         *)
(***************************************************************************)
BeamStates == 0 .. MaxBeamState
ExpandFns == {"expand_state", "fork", "dead_end", "tie"}

is_terminal(state) == state >= 3

Succ(next_state, action, action_cost) ==
  [next_state |-> next_state, action |-> action, action_cost |-> action_cost]

expand_state(state) ==
  IF state >= 3 THEN <<>> ELSE <<Succ(state + 1, state + 1, state + 1)>>

expand_fn(fn, state) ==
  IF fn = "expand_state" THEN expand_state(state)
  ELSE IF fn = "fork"
  THEN (IF state + 1 <= MaxBeamState THEN <<Succ(state + 1, 1, 3)>> ELSE <<>>)
       \o (IF state + 2 <= MaxBeamState THEN <<Succ(state + 2, 2, 1)>>
           ELSE <<>>)
  ELSE IF fn = "dead_end"
  THEN (IF state = 0 THEN <<Succ(1, 1, 1), Succ(2, 2, 2)>>
        ELSE IF state = 2 THEN <<Succ(3, 1, 1)>>
        ELSE <<>>)
  ELSE (IF state + 1 <= MaxBeamState
        THEN <<Succ(state + 1, 1, 1), Succ(state + 1, 2, 1)>>
        ELSE <<>>)

Entry(cost_, state, sequence) ==
  [cost |-> cost_, state |-> state, sequence |-> sequence]

\* the entries one beam entry contributes to new_beam
Expansions(fn, e) ==
  LET new_states == expand_fn(fn, e.state) IN
  [k \in 1 .. Len(new_states) |->
     Entry(e.cost + new_states[k].action_cost, new_states[k].next_state,
           Append(e.sequence, new_states[k].action))]

RECURSIVE new_beam(_, _, _)
new_beam(fn, b, i) ==
  IF i > Len(b) THEN <<>>
  ELSE Expansions(fn, b[i]) \o new_beam(fn, b, i + 1)

\* heapq.nsmallest(n, iterable, key) is sorted(iterable, key=key)[:n]; the
\* sort is stable
RECURSIVE insert_sorted(_, _)
insert_sorted(sorted, x) ==
  IF sorted = <<>> THEN <<x>>
  ELSE IF x.cost < sorted[Len(sorted)].cost
  THEN Append(insert_sorted(SubSeq(sorted, 1, Len(sorted) - 1), x),
              sorted[Len(sorted)])
  ELSE Append(sorted, x)

RECURSIVE sorted_by_cost(_, _)
sorted_by_cost(b, n) ==
  IF n = 0 THEN <<>>
  ELSE insert_sorted(sorted_by_cost(b, n - 1), b[n])

nsmallest(n, b) ==
  LET sorted == sorted_by_cost(b, Len(b)) IN
  SubSeq(sorted, 1, IF n < Len(sorted) THEN n ELSE Len(sorted))

all_terminal(b) == \A i \in DOMAIN b : is_terminal(b[i].state)

\* max(beam, key=cost): the first entry of largest cost
max_by_cost(b) ==
  b[CHOOSE i \in DOMAIN b :
      \A j \in DOMAIN b :
        /\ b[i].cost >= b[j].cost
        /\ j < i => b[j].cost < b[i].cost]

\* the solver's variables while no solver runs
NoSolver ==
  /\ inst = [cap |-> 1, tt |-> 0, dl |-> 1]
  /\ heap = <<>>
  /\ fsets = <<>>
  /\ initial_state = [v \in Vehicles |-> None]
  /\ current_state = [v \in Vehicles |-> None]
  /\ route_length = [v \in Vehicles |-> 0]
  /\ unanswered_calls = {}
  /\ error = "none"
  /\ selected = [v \in Vehicles |-> <<>>]
  /\ multi = NoMulti

InitBeam ==
  /\ NoSolver
  /\ objs = <<>>
  /\ last = Op("init", -1, NoAction, -1)
  /\ \E initial \in BeamStates, fn \in ExpandFns,
        beam_width \in 1 .. MaxWidth, max_depth \in 0 .. MaxDepth :
       /\ beam = [initial_state |-> initial, expand_fn |-> fn,
                  beam_width |-> beam_width, max_depth |-> max_depth,
                  depth |-> 0, beam |-> <<Entry(0, initial, <<>>)>>,
                  result |-> <<>>]
       /\ pc = IF max_depth = 0 THEN "beam_select" ELSE "beam_loop"

\* one iteration of the for loop, with its break
BeamRound ==
  /\ pc = "beam_loop"
  /\ LET b == nsmallest(beam.beam_width,
                        new_beam(beam.expand_fn, beam.beam, 1))
     IN /\ beam' = [beam EXCEPT !.beam = b, !.depth = @ + 1]
        /\ pc' = IF all_terminal(b) \/ beam.depth + 1 >= beam.max_depth
                 THEN "beam_select" ELSE "beam_loop"
  /\ last' = Op("round", -1, NoAction, -1)
  /\ UNCHANGED <<inst, heap, fsets, initial_state, current_state,
                 route_length, unanswered_calls, error, selected, multi,
                 objs>>

\* the final selection: max raises ValueError on an empty beam
BeamSelect ==
  /\ pc = "beam_select"
  /\ IF beam.beam = <<>>
     THEN /\ error' = "ValueError"
          /\ pc' = "beam_raised"
          /\ UNCHANGED beam
     ELSE /\ error' = "none"
          /\ pc' = "beam_returned"
          /\ beam' = [beam EXCEPT !.result = max_by_cost(beam.beam).sequence]
  /\ last' = Op("select", -1, NoAction, -1)
  /\ UNCHANGED <<inst, heap, fsets, initial_state, current_state,
                 route_length, unanswered_calls, selected, multi, objs>>

NextBeam == BeamRound \/ BeamSelect

SpecBeam == InitBeam /\ [][NextBeam]_vars

(***************************************************************************)
(* Action objects before and after link_call (models/actions.py).  objs    *)
(* holds the Action objects; _call, _hash and _load_delta are <<>> for     *)
(* None.  Each step is one operation on an object; last records the        *)
(* operation, its operands, whether it raised, and the value returned.     *)
(***************************************************************************)
Objs == 1 .. NumObjs

\* the times an Action is constructed with
ActionTimes == 0 .. MaxWindow

\* what a weak reference returns once its Call is gone (None)
NoCall == -1

\* Action.__init__: ValueError for an action_idx other than 0 and 1 and
\* for earliest_time > latest_time
NewAction(action_idx, n, earliest, latest) ==
  IF action_idx \notin {0, 1} \/ earliest > latest
  THEN [raised |-> TRUE, result |-> <<>>]
  ELSE [raised |-> FALSE,
        result |-> <<[action_idx |-> action_idx, node_idx |-> n,
                      earliest_time |-> earliest, latest_time |-> latest,
                      _call |-> <<>>, _hash |-> <<>>,
                      _load_delta |-> <<>>]>>]

\* hash of a small non-negative int is the int; (idx << 1) | action_idx;
\* _call is a weak reference to the Call
link_call(a, c) ==
  [a EXCEPT !._call = <<c>>,
            !._hash = <<(2 * c) + a.action_idx>>,
            !._load_delta = <<IF a.action_idx = 0 THEN size(c) ELSE - size(c)>>]

\* the Call an Action was linked to is released by its last holder: the
\* weak reference of the Action is dead
release(a) == [a EXCEPT !._call = <<NoCall>>]

Res(op, obj, other, raised, result) ==
  [op |-> op, obj |-> obj, other |-> other, raised |-> raised,
   result |-> result]

action_call(a) ==
  IF a._call = <<>> THEN [raised |-> TRUE, result |-> <<>>]
  ELSE [raised |-> FALSE, result |-> a._call]

action_load_delta(a) ==
  IF a._load_delta = <<>> THEN [raised |-> TRUE, result |-> <<>>]
  ELSE [raised |-> FALSE, result |-> a._load_delta]

action_hash(a) ==
  IF a._hash = <<>> THEN [raised |-> TRUE, result |-> <<>>]
  ELSE [raised |-> FALSE, result |-> a._hash]

\* __eq__ between two Actions: self._hash == other._hash, None included
action_eq(a, b) == [raised |-> FALSE, result |-> <<a._hash = b._hash>>]

InitAction ==
  /\ NoSolver
  /\ beam = NoBeam
  /\ pc = "actions"
  /\ last = Res("init", 0, 0, FALSE, <<>>)
  /\ objs \in [Objs -> {NewAction(k, n, 0, MaxWindow).result[1] :
                          k \in {0, 1}, n \in Nodes}]

Observe(op, i, j, r) ==
  /\ last' = Res(op, i, j, r.raised, r.result)
  /\ error' = IF r.raised THEN "ValueError" ELSE "none"
  /\ UNCHANGED <<inst, heap, fsets, initial_state, current_state,
                 route_length, unanswered_calls, pc, selected, multi, beam>>

\* objs[i] = Action(action_idx, n, earliest, latest)
ActNew(i, action_idx, n, earliest, latest) ==
  LET r == NewAction(action_idx, n, earliest, latest) IN
  /\ objs' = IF r.raised THEN objs ELSE [objs EXCEPT ![i] = r.result[1]]
  /\ Observe("new", i, 0, [raised |-> r.raised, result |-> <<>>])

\* a Call object is not referenced any more: the weak reference of every
\* Action linked to that object (the Actions of S, linked to call c) is dead
ActRelease(S, c) ==
  /\ S # {}
  /\ \A i \in S : objs[i]._call = <<c>>
  /\ objs' = [i \in Objs |-> IF i \in S THEN release(objs[i]) ELSE objs[i]]
  /\ Observe("release", 0, 0, [raised |-> FALSE, result |-> <<>>])

ActLink(i, c) ==
  /\ objs' = [objs EXCEPT ![i] = link_call(@, c)]
  /\ Observe("link_call", i, 0, [raised |-> FALSE, result |-> <<>>])

ActCall(i) ==
  /\ Observe("call", i, 0, action_call(objs[i]))
  /\ UNCHANGED objs

ActLoadDelta(i) ==
  /\ Observe("load_delta", i, 0, action_load_delta(objs[i]))
  /\ UNCHANGED objs

ActHash(i) ==
  /\ Observe("hash", i, 0, action_hash(objs[i]))
  /\ UNCHANGED objs

ActEq(i, j) ==
  /\ Observe("eq", i, j, action_eq(objs[i], objs[j]))
  /\ UNCHANGED objs

NextAction ==
  \/ \E i \in Objs, k \in -1 .. 2, n \in Nodes, e, l \in ActionTimes :
       ActNew(i, k, n, e, l)
  \/ \E S \in SUBSET Objs, c \in Calls : ActRelease(S, c)
  \/ \E i \in Objs, c \in Calls : ActLink(i, c)
  \/ \E i \in Objs : ActCall(i)
  \/ \E i \in Objs : ActLoadDelta(i)
  \/ \E i \in Objs : ActHash(i)
  \/ \E i, j \in Objs : ActEq(i, j)

SpecAction == InitAction /\ [][NextAction]_vars

(***************************************************************************)
(* expand_state(state, vehicle, unanswered_calls, depth) of                *)
(* utils/search/search_utils.py: the lookahead expansion.  The candidates  *)
(* are computed from state, each is simulated with vehicle.perform, which  *)
(* starts from the vehicle's current_state (cur), and the result is        *)
(* registered under state with add_transition before the recursion.        *)
(***************************************************************************)
RECURSIVE search_expand_state(_, _, _, _, _, _)
RECURSIVE search_expand_loop(_, _, _, _, _, _, _, _)
search_expand_loop(st, v, state, cur, acts, i, unanswered, depth) ==
  IF i > Len(acts) THEN st
  ELSE LET resulting_state == perform(v, st.heap[cur], acts[i])
           st0 == [st EXCEPT !.heap[cur] = perform_current(v, @, acts[i])]
       IN
       IF resulting_state = <<>>
       THEN search_expand_loop(st0, v, state, cur, acts, i + 1, unanswered,
                               depth)
       ELSE LET st1 == New(st0, resulting_state[1])
                id == Len(st1.heap)
                st2 == add_transition(st1, state, acts[i], id)
                st3 == search_expand_state(st2, v, id, cur,
                                           unanswered \ {acts[i].call},
                                           depth - 1)
            IN search_expand_loop(st3, v, state, cur, acts, i + 1,
                                  unanswered, depth)

search_expand_state(st, v, state, cur, unanswered, depth) ==
  IF depth <= 0 THEN st
  ELSE search_expand_loop(st, v, state, cur,
                          potential_actions(v, st.heap[state], unanswered),
                          1, unanswered, depth)

(***************************************************************************)
(* SearchSolver.solve (solvers/search_solvers/search_solver.py).  Its four *)
(* hooks are abstract there and no class under src/ implements them: they  *)
(* are taken as what their docstrings and the source around them say.  A   *)
(* tree is initialized and expanded with expand_state from the vehicle's   *)
(* current state to some depth, the pair selected is a branch of an active *)
(* vehicle, and the call of a pickup is removed from the other vehicles    *)
(* as SelectionSolver.solve does it.                                       *)
(***************************************************************************)
initialize_search_tree(st, v, unanswered, depth) ==
  search_expand_state(st, v, current_state[v], current_state[v], unanswered,
                      depth)

expand_vehicle_search_tree(st, v, cur, unanswered, depth) ==
  search_expand_state(st, v, cur, cur, unanswered, depth)

remove_answered_call(st, selected_vehicle, selected_action) ==
  remove_others(st, 0, selected_vehicle, selected_action.call)

RECURSIVE initialize_search_trees(_, _, _)
initialize_search_trees(st, v, depth) ==
  IF v >= NumVehicles THEN st
  ELSE initialize_search_trees(
         initialize_search_tree(st, v, unanswered_calls, depth), v + 1, depth)

InitSearch ==
  /\ InitObjects
  /\ inst.cap = MaxCapacity
  /\ inst.tt = 0
  /\ pc = "search_start"
  /\ multi = NoMulti
  /\ beam = NoBeam
  /\ objs = <<>>

SearchStart(depth) ==
  /\ pc = "search_start"
  /\ SetStore(initialize_search_trees(Store, 0, depth), current_state)
  /\ pc' = "search_loop"
  /\ error' = "none"
  /\ last' = Op("initialize_search_trees", -1, NoAction, depth)
  /\ UNCHANGED <<inst, initial_state, route_length, unanswered_calls,
                 selected, multi, beam, objs>>

\* one iteration of the loop: lines 44-57
SearchStep(selected_vehicle, selected_action, depth) ==
  /\ pc = "search_loop"
  /\ selected_vehicle \in get_active_vehicles
  /\ selected_action \in Keys(heap[current_state[selected_vehicle]].next_states)
  /\ LET r == vehicle_select(Store, current_state[selected_vehicle],
                             route_length[selected_vehicle], selected_action)
         unanswered == unanswered_calls \ {selected_action.call}
         st2 == expand_vehicle_search_tree(r.st, selected_vehicle,
                                           r.current_state, unanswered, depth)
         st3 == IF selected_action.action_idx = 1 THEN st2
                ELSE remove_answered_call(st2, selected_vehicle,
                                          selected_action)
     IN /\ SetStore(st3, [current_state EXCEPT
                                ![selected_vehicle] = r.current_state])
        /\ route_length' =
             [route_length EXCEPT ![selected_vehicle] = r.route_length]
        /\ unanswered_calls' = unanswered
  /\ selected' = [selected EXCEPT ![selected_vehicle] =
                    Append(@, selected_action)]
  /\ error' = "none"
  /\ last' = Op("search_step", selected_vehicle, selected_action, depth)
  /\ UNCHANGED <<inst, initial_state, pc, multi, beam, objs>>

SearchDone ==
  /\ pc = "search_loop"
  /\ get_active_vehicles = {}
  /\ pc' = "done"
  /\ last' = Op("return", -1, NoAction, -1)
  /\ UNCHANGED <<inst, heap, fsets, initial_state, current_state,
                 route_length, unanswered_calls, error, selected, multi,
                 beam, objs>>

NextSearch ==
  \/ \E depth \in 1 .. MaxLookahead : SearchStart(depth)
  \/ \E v \in Vehicles, a \in Actions, depth \in 1 .. MaxLookahead :
       SearchStep(v, a, depth)
  \/ SearchDone

SpecSearch == InitSearch /\ [][NextSearch]_vars

(***************************************************************************)
(* Views of the object graph used to state the properties.                 *)
(***************************************************************************)
\* the committed route of vehicle v and the States along it
Route(v) == vehicle_action_sequence(Store, initial_state[v])

RECURSIVE PathStates(_, _)
PathStates(st, id) ==
  IF st.heap[id].selected_action = NoAction THEN <<id>>
  ELSE <<id>> \o PathStates(st, st.heap[id].next_state)

CallsOf(seq) == {seq[i].call : i \in DOMAIN seq}

\* every State with its _frontier set object replaced by the set's content
View(st) ==
  [i \in DOMAIN st.heap |-> [st.heap[i] EXCEPT !.frontier = st.fsets[@]]]

LoadInvariant(s) == load(s) = SumSizes(s.commitments)

(***************************************************************************)
(* C1: during a construction run no call is claimed by two vehicles: for   *)
(* every call, at most one vehicle's committed route holds an action of it.*)
(***************************************************************************)
C1_NoCallClaimedTwice ==
  \A c \in Calls :
    Cardinality({v \in Vehicles : c \in CallsOf(Route(v))}) <= 1

\* a call was picked up by one vehicle while another vehicle could perform
\* the same pickup from its current state, and that branch is gone
C1_Witness ==
  \E v \in Vehicles, w \in Vehicles, c \in Calls :
    /\ v # w
    /\ last = Op("step", v, Pickup(c), c)
    /\ perform(w, heap[current_state[w]], Pickup(c)) # <<>>
    /\ Pickup(c) \notin Keys(heap[current_state[w]].next_states)

(***************************************************************************)
(* C2: in every vehicle's committed route each action occurs at most once  *)
(* and a Delivery of c comes only after the Pickup of c in the same route. *)
(***************************************************************************)
C2_PickupBeforeDelivery ==
  \A v \in Vehicles :
    LET r == Route(v) IN
    /\ \A i \in DOMAIN r, j \in DOMAIN r : r[i] = r[j] => i = j
    /\ \A j \in DOMAIN r :
         r[j].action_idx = 1 =>
           \E i \in 1 .. (j - 1) : r[i] = Pickup(r[j].call)

\* a route that carries two calls at once and has delivered both
C2_Witness ==
  \E v \in Vehicles :
    LET r == Route(v) IN
    /\ Len(r) = 4
    /\ r[1].action_idx = 0
    /\ r[2].action_idx = 0

(***************************************************************************)
(* C3: capacity is respected along every route: every State on a vehicle's *)
(* committed path has load <= the vehicle's capacity.                      *)
(***************************************************************************)
C3_CapacityRespected ==
  \A v \in Vehicles :
    LET ps == PathStates(Store, initial_state[v]) IN
    \A i \in DOMAIN ps : load(heap[ps[i]]) <= capacity(v)

(***************************************************************************)
(* C4: time windows are respected along every route: each committed action *)
(* is reached no later than its latest_time, service starts no earlier     *)
(* than its earliest_time, and State times never decrease along the route. *)
(***************************************************************************)
C4_TimeWindowsRespected ==
  \A v \in Vehicles :
    LET ps == PathStates(Store, initial_state[v])
        r == Route(v)
    IN \A i \in DOMAIN r :
         LET prev == heap[ps[i]]
             nxt == heap[ps[i + 1]]
             arrival == prev.time + travel_times(v, prev.node, node(r[i]))
             start == nxt.time - service_times(v, r[i].call, r[i].action_idx)
         IN /\ arrival <= latest_time(r[i])
            /\ start = Max(arrival, earliest_time(r[i]))
            /\ start >= earliest_time(r[i])
            /\ nxt.time >= prev.time

\* a vehicle committed an action it reached exactly at its latest_time after
\* having waited for an earlier action's window to open
C4_Witness ==
  \E v \in Vehicles :
    LET ps == PathStates(Store, initial_state[v])
        r == Route(v)
    IN \E i \in DOMAIN r, j \in DOMAIN r :
         /\ i < j
         /\ heap[ps[i]].time + travel_times(v, heap[ps[i]].node, node(r[i]))
              < earliest_time(r[i])
         /\ heap[ps[j]].time + travel_times(v, heap[ps[j]].node, node(r[j]))
              = latest_time(r[j])

(***************************************************************************)
(* C5: at the head of every iteration of the construction loop, a call     *)
(* picked up by one vehicle has no branch anywhere in the tree of any      *)
(* other vehicle, and no later expand brings one back.                     *)
(***************************************************************************)
C5_ClaimedCallPruned ==
  pc \in {"loop", "done"} =>
    \A v \in Vehicles, w \in Vehicles :
      v # w =>
        \A i \in Tree(Store, initial_state[w]) :
          CallsOf(Route(v)) \cap
            {a.call : a \in Keys(heap[i].next_states)} = {}

\* a vehicle that has moved below its root could perform the pickup of a
\* call from its current state, but another vehicle holds the call and the
\* branch is gone
C5_Witness ==
  \E v \in Vehicles, w \in Vehicles, c \in Calls :
    /\ v # w
    /\ pc = "loop"
    /\ c \in CallsOf(Route(v))
    /\ route_length[w] >= 1
    /\ perform(w, heap[current_state[w]], Pickup(c)) # <<>>
    /\ Pickup(c) \notin Keys(heap[current_state[w]].next_states)

(***************************************************************************)
(* C6: after remove(c) on a vehicle's root no Action of call c is          *)
(* reachable from the root: not as a key of a child map, not through the   *)
(* selected_action / next_state chain, not through a stored frontier set.  *)
(***************************************************************************)
C6_RemovedCallUnreachable ==
  \A v \in Vehicles, c \in Calls :
    LET st == state_remove(Store, initial_state[v], c) IN
    \A i \in Reachable(st, initial_state[v]) :
      /\ \A a \in Keys(st.heap[i].next_states) : a.call # c
      /\ st.heap[i].selected_action.call # c

(***************************************************************************)
(* C7: State.remove is idempotent, and removing a call that has no branch  *)
(* in the tree leaves every State as it was: child map, selected_action,   *)
(* next_state and the content of the stored frontier.                      *)
(***************************************************************************)
C7_RemoveIdempotentNoop ==
  \A v \in Vehicles, c \in Calls :
    LET root == initial_state[v]
        once == state_remove(Store, root, c)
        twice == state_remove(once, root, c)
        absent == \A i \in Tree(Store, root) :
                    \A a \in Keys(heap[i].next_states) : a.call # c
    IN /\ View(twice) = View(once)
       /\ absent => View(once) = View(Store)

(***************************************************************************)
(* C8: after the successful Vehicle.select calls a1..ak, interleaved with  *)
(* expand and remove, the route replayed from the root is <<a1,...,ak>>    *)
(* and route_length is k.                                                  *)
(***************************************************************************)
C8_ActionSequenceIsSelected ==
  \A v \in Vehicles :
    /\ Route(v) = selected[v]
    /\ route_length[v] = Len(selected[v])

\* two selects were made and a remove that left the selected branch in place
\* came after them
C8_Witness ==
  \E v \in Vehicles :
    /\ Len(selected[v]) >= 2
    /\ last.op = "remove"
    /\ selected[v][1] \in Keys(heap[initial_state[v]].next_states)

(***************************************************************************)
(* C9: selecting an action that is not a registered branch of the current  *)
(* state raises an error and changes nothing: current_state, route_length  *)
(* and every State's child map, selected_action and next_state stay.       *)
(***************************************************************************)
C9_InvalidSelectChangesNothing ==
  /\ [](\A v \in Vehicles, a \in Actions :
          a \notin Keys(heap[current_state[v]].next_states) =>
            LET r == vehicle_select(Store, current_state[v],
                                    route_length[v], a)
            IN /\ r.raised
               /\ r.st = Store
               /\ r.current_state = current_state[v]
               /\ r.route_length = route_length[v])
  /\ [][error' = "ValueError" =>
          UNCHANGED <<heap, fsets, current_state, route_length, selected>>
       ]_vars

\* a select was refused at a state that has other branches registered
C9_Witness ==
  /\ error = "ValueError"
  /\ last.op = "select"
  /\ heap[current_state[last.vehicle]].next_states # <<>>

(***************************************************************************)
(* C10: every State perform returns from a State whose load is the sum of  *)
(* the sizes of its commitments has that property again, for any action;   *)
(* hence it holds of every State of every vehicle's tree.                  *)
(***************************************************************************)
C10_LoadIsSumOfCommitments ==
  /\ \A v \in Vehicles, i \in DOMAIN heap, a \in Actions :
       (LoadInvariant(heap[i]) /\ perform(v, heap[i], a) # <<>>)
         => LoadInvariant(perform(v, heap[i], a)[1])
  /\ \A v \in Vehicles :
       \A i \in Tree(Store, initial_state[v]) : LoadInvariant(heap[i])

(***************************************************************************)
(* C13: when a construction is complete, get_cost is the sum of the travel *)
(* and service costs of all committed actions plus the full void cost of   *)
(* exactly the calls that are in no vehicle's route; a served call adds no *)
(* penalty.                                                                *)
(***************************************************************************)
RECURSIVE TravelService(_, _, _, _)
TravelService(v, ps, r, i) ==
  IF i > Len(r) THEN 0
  ELSE travel_costs(v, heap[ps[i]].node, heap[ps[i + 1]].node)
       + service_costs(v, r[i].call, r[i].action_idx)
       + TravelService(v, ps, r, i + 1)

RECURSIVE SumTravelService(_)
SumTravelService(v) ==
  IF v >= NumVehicles THEN 0
  ELSE TravelService(v, PathStates(Store, initial_state[v]), Route(v), 1)
       + SumTravelService(v + 1)

Served == UNION {CallsOf(Route(v)) : v \in Vehicles}

C13_TotalCost ==
  pc = "done" =>
    get_cost(Store, initial_state)
      = SumTravelService(0) + SumVoid(Calls \ Served)

\* a complete construction that served one call and left another unserved
C13_Witness ==
  /\ pc = "done"
  /\ Served # {}
  /\ Served # Calls

(***************************************************************************)
(* C11: is_feasible(state) is true exactly when some ordering of the       *)
(* state's open deliveries can be executed from the state's node, time and *)
(* load with each delivery reached no later than its latest_time (waiting  *)
(* for earliest_time, then the service time) and the load after each       *)
(* delivery within the capacity; the deadline-sorted scan does not matter. *)
(***************************************************************************)
Orderings(S) ==
  {f \in [1 .. Cardinality(S) -> S] :
     \A i, j \in 1 .. Cardinality(S) : f[i] = f[j] => i = j}

RECURSIVE Executes(_, _, _, _, _, _)
Executes(v, n, t, l, order, i) ==
  IF i > Len(order) THEN TRUE
  ELSE LET d == Delivery(order[i])
           arrival == t + travel_times(v, n, node(d))
       IN /\ arrival <= latest_time(d)
          /\ l - size(order[i]) <= capacity(v)
          /\ Executes(v, node(d),
                      Max(arrival, earliest_time(d))
                        + service_times(v, order[i], 1),
                      l - size(order[i]), order, i + 1)

Feasible(v, s, order) == Executes(v, s.node, s.time, load(s), order, 1)

C11_FeasibleIffSomeOrdering ==
  \A v \in Vehicles :
    is_feasible(v, heap[current_state[v]])
      <=> \E order \in Orderings(heap[current_state[v]].commitments) :
            Feasible(v, heap[current_state[v]], order)

\* perform returned a State with two open deliveries that is feasible although
\* no feasible ordering starts with the delivery that has the earliest
\* deadline
C11_Witness ==
  /\ last.op = "perform"
  /\ \E v \in Vehicles :
       LET s == heap[current_state[v]] IN
       /\ Cardinality(s.commitments) >= 2
       /\ is_feasible(v, s)
       /\ \A order \in Orderings(s.commitments) :
            Feasible(v, s, order)
              => order[1] # sorted_commitments(s.commitments)[1]

(***************************************************************************)
(* C16: a State returned by perform(action) has the action's node, time =  *)
(* max(current time + travel time, earliest_time) + service time, load =   *)
(* current load + load_delta and the commitments with the call's delivery  *)
(* added (Pickup) or taken out (Delivery); nothing is returned when the    *)
(* arrival is after latest_time, when a Pickup's call is not compatible    *)
(* with the vehicle, or when a Delivery is not an open commitment.         *)
(***************************************************************************)
C16_PerformResult ==
  \A v \in Vehicles, a \in Actions :
    LET s == heap[current_state[v]]
        r == perform(v, s, a)
        arrival == s.time + travel_times(v, s.node, node(a))
    IN /\ r # <<>> =>
            /\ r[1].node = node(a)
            /\ r[1].time = Max(arrival, earliest_time(a))
                           + service_times(v, a.call, a.action_idx)
            /\ load(r[1]) = load(s) + load_delta(a)
            /\ a.action_idx = 0 =>
                 r[1].commitments = s.commitments \cup {a.call}
            /\ a.action_idx = 1 =>
                 r[1].commitments = s.commitments \ {a.call}
       /\ arrival > latest_time(a) => r = <<>>
       /\ (a.action_idx = 0 /\ a.call \notin compatible_calls(v)) => r = <<>>
       /\ (a.action_idx = 1 /\ a.call \notin s.commitments) => r = <<>>

\* perform has returned a State, and from it perform returns a State for an
\* action the vehicle has to wait for and refuses an incompatible pickup the
\* vehicle would reach in time
C16_Witness ==
  /\ last.op = "perform"
  /\ \E v \in Vehicles, a \in Actions :
       LET s == heap[current_state[v]] IN
       /\ perform(v, s, a) # <<>>
       /\ s.time + travel_times(v, s.node, node(a)) < earliest_time(a)
  /\ \E v \in Vehicles, c \in Calls :
       /\ c \notin compatible_calls(v)
       /\ get_new_time(v, heap[current_state[v]], Pickup(c)) # <<>>
       /\ perform(v, heap[current_state[v]], Pickup(c)) = <<>>

(***************************************************************************)
(* C12: the construction loop terminates for every instance and every      *)
(* choice of vehicle and action: each iteration commits exactly one action *)
(* that no route held before, so at most 2 * |calls| actions are ever      *)
(* committed, and the loop ends exactly when no vehicle has a registered   *)
(* branch at its current state.                                            *)
(***************************************************************************)
RECURSIVE Committed(_)
Committed(v) ==
  IF v >= NumVehicles THEN 0 ELSE Len(Route(v)) + Committed(v + 1)

NoBranch == \A v \in Vehicles : heap[current_state[v]].next_states = <<>>

C12_ConstructionTerminates ==
  /\ <>(pc = "done")
  /\ [](Committed(0) <= 2 * NumCalls)
  /\ [](pc = "done" => NoBranch)
  /\ [][(pc = "loop" /\ NoBranch) => pc' = "done"]_vars
  /\ [][(pc = "loop" /\ ~NoBranch) =>
          /\ pc' = "loop"
          /\ \E v \in Vehicles, a \in Actions :
               /\ Route(v)' = Append(Route(v), a)
               /\ \A w \in Vehicles :
                    /\ \A i \in DOMAIN Route(w) : Route(w)[i] # a
                    /\ w # v => Route(w)' = Route(w)]_vars

\* a run that ended after committing both actions of every call
C12_Witness ==
  /\ pc = "done"
  /\ Committed(0) = 2 * NumCalls

(***************************************************************************)
(* C15: a call whose delivery cannot be reached by its latest_time after   *)
(* its pickup is never picked up: perform on the delivery returns nothing, *)
(* no branch for the pickup is registered, and when this is so for every   *)
(* call and vehicle the run ends with every call unanswered, every route   *)
(* empty and the total cost equal to the void costs.                       *)
(***************************************************************************)
\* the State the pickup of c leads to from s, were it accepted
AfterPickup(v, s, c) ==
  State(node(Pickup(c)),
        Max(s.time + travel_times(v, s.node, node(Pickup(c))),
            earliest_time(Pickup(c))) + service_times(v, c, 0),
        s.commitments \cup {c}, <<load(s) + size(c)>>)

Unreachable(v, s, c) ==
  LET p == AfterPickup(v, s, c) IN
  p.time + travel_times(v, p.node, node(Delivery(c)))
    > latest_time(Delivery(c))

NeverServable(c) ==
  \A v \in Vehicles :
    c \in compatible_calls(v) => Unreachable(v, heap[initial_state[v]], c)

C15_UnreachableDeliveryNeverPickedUp ==
  /\ \A v \in Vehicles, c \in Calls :
       /\ \A i \in Tree(Store, initial_state[v]) :
            Unreachable(v, heap[i], c) =>
              /\ perform(v, AfterPickup(v, heap[i], c), Delivery(c)) = <<>>
              /\ perform(v, heap[i], Pickup(c)) = <<>>
              /\ Pickup(c) \notin Keys(heap[i].next_states)
       /\ LET ps == PathStates(Store, initial_state[v]) IN
          \A i \in DOMAIN Route(v) :
            Route(v)[i] = Pickup(c) => ~Unreachable(v, heap[ps[i]], c)
  /\ \A c \in Calls :
       NeverServable(c) => (c \in unanswered_calls /\ c \notin Served)
  /\ (pc = "done" /\ \A c \in Calls : NeverServable(c)) =>
       /\ \A v \in Vehicles : Route(v) = <<>>
       /\ get_cost(Store, initial_state) = SumVoid(Calls)

\* a run has ended where a vehicle reaches the pickup of a call in time but
\* not its delivery, for every call alike: nothing was ever committed
C15_Witness ==
  /\ pc = "done"
  /\ \A c \in Calls : NeverServable(c)
  /\ \E v \in Vehicles :
       \E c \in compatible_calls(v) :
         get_new_time(v, heap[initial_state[v]], Pickup(c)) # <<>>

(***************************************************************************)
(* C17: after expand(U) from the current state s, the child map of s holds *)
(* the branches it held before, unchanged and with their child States      *)
(* untouched, plus one branch for exactly those candidates (deliveries in  *)
(* s.commitments, pickups of compatible calls in U) for which perform      *)
(* returns a State; current_state and route_length do not change.          *)
(***************************************************************************)
Candidates(v, s, U) ==
  {Delivery(c) : c \in s.commitments}
    \cup {Pickup(c) : c \in compatible_calls(v) \cap U}

C17_ExpandRegistersFeasible ==
  /\ [](\A v \in Vehicles, U \in SUBSET Calls :
          LET cur == current_state[v]
              s == heap[cur]
              st == expand(Store, v, cur, U)
              ns == st.heap[cur].next_states
          IN /\ Keys(ns) = Keys(s.next_states)
                  \cup {a \in Candidates(v, s, U) : perform(v, s, a) # <<>>}
             /\ Len(ns) = Cardinality(Keys(ns))
             /\ \A k \in DOMAIN s.next_states : ns[k] = s.next_states[k]
             /\ \A i \in DOMAIN heap :
                  i # cur => st.heap[i] = heap[i]
             /\ [st.heap[cur] EXCEPT !.load = <<>>]
                  = [s EXCEPT !.next_states = ns, !.load = <<>>]
             /\ load(st.heap[cur]) = load(s)
             /\ \A k \in DOMAIN ns \ DOMAIN s.next_states :
                  LET child == st.heap[ns[k].state]
                      r == perform(v, s, ns[k].action)[1]
                  IN /\ ns[k].state \notin DOMAIN heap
                     /\ child.node = r.node
                     /\ child.time = r.time
                     /\ child.commitments = r.commitments
                     /\ load(child) = load(r)
                     /\ child.next_states = <<>>)
  /\ [][last'.op = "expand" =>
          UNCHANGED <<current_state, route_length>>]_vars

\* expand has added a branch to a State that already had one registered
\* through add_transition, which is still the first branch
C17_Witness ==
  /\ last.op = "expand"
  /\ \E v \in Vehicles :
       LET s == heap[current_state[v]] IN
       /\ Len(s.next_states) >= 2
       /\ s.next_states[1].state \in fsets[s.frontier]
       /\ s.next_states[2].state \notin fsets[s.frontier]

(***************************************************************************)
(* C18: after Vehicle.reset(), following any sequence of expand, select    *)
(* and remove, the vehicle is in its initial condition: the root has an    *)
(* empty child map, no selected action and no next state, the action       *)
(* sequence is empty, current_state is the root, route_length is 0, and    *)
(* the root's node, time and commitments are what they were.  After        *)
(* Solver.reset() every vehicle is in that condition and unanswered_calls  *)
(* is the full set of calls again.                                         *)
(***************************************************************************)
InitialCondition(st, v, cur, rl) ==
  LET root == st.heap[initial_state[v]] IN
  /\ root.next_states = <<>>
  /\ root.selected_action = NoAction
  /\ root.next_state = None
  /\ action_sequence(st, initial_state[v]) = <<>>
  /\ cur = initial_state[v]
  /\ rl = 0
  /\ root.node = start_node(v)
  /\ root.time = start_time(v)
  /\ root.commitments = {}

C18_ResetRestoresInitial ==
  /\ [](\A v \in Vehicles :
          LET r == vehicle_reset(Store, initial_state[v]) IN
          InitialCondition(r.st, v, r.current_state, r.route_length))
  /\ [][last'.op = "reset" =>
          InitialCondition(Store', last'.vehicle,
                           current_state'[last'.vehicle],
                           route_length'[last'.vehicle])]_vars
  /\ [][last'.op = "solver_reset" =>
          /\ unanswered_calls' = Calls
          /\ \A v \in Vehicles :
               InitialCondition(Store', v, current_state'[v],
                                route_length'[v])]_vars

\* the solver was reset after a call had been answered and a tree grown:
\* every call is unanswered again, every vehicle is as it was at the start,
\* and the stored frontier of a root still holds States of the old tree
C18_Witness ==
  /\ last.op = "solver_reset"
  /\ last.call >= 1
  /\ unanswered_calls = Calls
  /\ \A v \in Vehicles :
       InitialCondition(Store, v, current_state[v], route_length[v])
  /\ \E v \in Vehicles : fsets[heap[initial_state[v]].frontier] # {}

(***************************************************************************)
(* C14: Vehicle.cost is, over the committed action sequence starting at    *)
(* the root's node, the sum of the travel costs between consecutive nodes  *)
(* plus each action's service cost minus half the void cost of its call;   *)
(* a vehicle with no committed action, in particular every vehicle right   *)
(* after a reset, costs 0.                                                 *)
(***************************************************************************)
\* the nodes visited: the root's node, then the node of each committed action
NodesVisited(v) ==
  <<heap[initial_state[v]].node>>
  \o [i \in 1 .. Len(Route(v)) |-> node(Route(v)[i])]

RECURSIVE SumLegs(_, _)
SumLegs(v, i) ==
  IF i = 0 THEN 0
  ELSE SumLegs(v, i - 1)
       + travel_costs(v, NodesVisited(v)[i], NodesVisited(v)[i + 1])
       + service_costs(v, Route(v)[i].call, Route(v)[i].action_idx)
       - (void_cost(Route(v)[i].call) \div 2)

C14_VehicleCost ==
  \A v \in Vehicles :
    /\ cost(Store, v, initial_state[v]) = SumLegs(v, Len(Route(v)))
    /\ Route(v) = <<>> => cost(Store, v, initial_state[v]) = 0
    /\ last.op = "trial" => cost(Store, v, initial_state[v]) = 0

\* in a trial that follows a reset, a vehicle has committed a pickup and a
\* delivery at different nodes while another vehicle has committed nothing
C14_Witness ==
  /\ multi.trial >= 1
  /\ \E v \in Vehicles :
       /\ Len(Route(v)) >= 2
       /\ node(Route(v)[1]) # node(Route(v)[2])
       /\ cost(Store, v, initial_state[v]) # 0
  /\ \E w \in Vehicles : Route(w) = <<>>

(***************************************************************************)
(* C19: under the cost-greedy or the time-greedy policy, consecutive       *)
(* trials of multi_solve, separated by reset, yield identical per-vehicle  *)
(* action sequences and identical total cost; what the first trial leaves  *)
(* behind does not reach the second: after the reset every vehicle is in   *)
(* its initial condition and every call is unanswered again.               *)
(***************************************************************************)
Deterministic == {"CostGreedySolver", "TimeGreedySolver", "GreedySolver"}

C19_TrialsRepeat ==
  multi.solver \in Deterministic =>
    /\ \A i, j \in DOMAIN multi.history : multi.history[i] = multi.history[j]
    /\ last.op = "trial" =>
         /\ unanswered_calls = Calls
         /\ \A v \in Vehicles :
              InitialCondition(Store, v, current_state[v], route_length[v])

\* two trials of the cost-greedy policy have returned, and in each of them
\* both a pickup and its delivery were committed
C19_Witness ==
  /\ pc = "returned"
  /\ multi.solver = "CostGreedySolver"
  /\ Len(multi.history) = 2
  /\ \E i \in DOMAIN multi.history[2].action_sequence :
       Len(multi.history[2].action_sequence[i]) >= 2

(***************************************************************************)
(* C20: multi_solve(n), n >= 1, returns the per-vehicle action sequences   *)
(* of the first trial whose total cost is minimal among the n trials; the  *)
(* cost of a trial is the one evaluated when its construction completed,   *)
(* before its reset, and the sequences kept are the ones the construction  *)
(* returned, whatever the later resets do to the trees.                    *)
(***************************************************************************)
FirstBest(h) ==
  CHOOSE k \in DOMAIN h :
    \A j \in DOMAIN h :
      /\ h[k].cost <= h[j].cost
      /\ j < k => h[j].cost > h[k].cost

TrialRecorded ==
  last'.op = "trial" =>
    /\ Len(multi'.history) = Len(multi.history) + 1
    /\ multi'.history[Len(multi'.history)] =
         [cost |-> get_cost(Store, initial_state),
          action_sequence |-> [i \in 1 .. NumVehicles |-> Route(i - 1)]]
    /\ \A i \in DOMAIN multi.history : multi'.history[i] = multi.history[i]

C20_ReturnsFirstBest ==
  /\ [](pc = "returned" =>
          /\ multi.n >= 1
          /\ Len(multi.history) = multi.n
          /\ multi.best_action_sequence =
               multi.history[FirstBest(multi.history)].action_sequence
          /\ multi.best_cost = <<multi.history[FirstBest(multi.history)].cost>>)
  /\ [][TrialRecorded]_vars
  /\ [][multi.best_cost # <<>> /\ multi'.best_cost = multi.best_cost =>
          multi'.best_action_sequence = multi.best_action_sequence]_vars

\* two trials tie on the minimal cost with different action sequences, and
\* the first one's sequences are returned after both resets
C20_Witness ==
  /\ pc = "returned"
  /\ multi.n = 2
  /\ multi.history[1].cost = multi.history[2].cost
  /\ multi.history[1].action_sequence # multi.history[2].action_sequence
  /\ multi.best_action_sequence = multi.history[1].action_sequence
  /\ \A v \in Vehicles : Route(v) = <<>>

(***************************************************************************)
(* C21: given a non-empty list of active vehicles, every selection policy  *)
(* returns a pair (v, a) with v one of the active vehicles and a a key of  *)
(* the child map of v's current state, so that the select(a) that follows  *)
(* on v does not raise.                                                    *)
(***************************************************************************)
ValidPair(e) ==
  /\ e.vehicle \in get_active_vehicles
  /\ e.action \in Keys(heap[current_state[e.vehicle]].next_states)
  /\ ~vehicle_select(Store, current_state[e.vehicle],
                     route_length[e.vehicle], e.action).raised

C21_PolicyReturnsValidPair ==
  (pc = "loop" /\ get_active_vehicles # {}) =>
    \A solver \in Solvers :
      /\ select_vehicle_action(solver) # {}
      /\ \A e \in select_vehicle_action(solver) : ValidPair(e)

\* the policy is asked while a vehicle has already left its initial state
\* and two vehicles are active
C21_Witness ==
  /\ pc = "loop"
  /\ Cardinality(get_active_vehicles) >= 2
  /\ \E v \in get_active_vehicles : route_length[v] >= 1
  /\ multi.solver = "TimeGreedySolver"

(***************************************************************************)
(* C22: the cost-greedy policy returns a pair whose immediate marginal     *)
(* cost, travel_cost(current.node, action.node) + service_cost(call, role) *)
(* - void_cost/2, is minimal over all (vehicle, branch) pairs of all       *)
(* active vehicles, not only over the branches of one vehicle chosen       *)
(* beforehand.  Stated for both cost-greedy classes of the repository,     *)
(* CostGreedySolver and GreedySolver.                                      *)
(***************************************************************************)
MarginalCost(e) ==
  travel_costs(e.vehicle, heap[current_state[e.vehicle]].node, node(e.action))
  + service_costs(e.vehicle, e.action.call, e.action.action_idx)
  - (void_cost(e.action.call) \div 2)

MinimalOverAll(e) ==
  \A j \in DOMAIN Choices(0) : MarginalCost(e) <= MarginalCost(Choices(0)[j])

CostGreedy == {"CostGreedySolver", "GreedySolver"}

C22_CostGreedyGlobalMinimum ==
  (pc = "loop" /\ get_active_vehicles # {} /\ multi.solver \in CostGreedy) =>
    \A e \in select_vehicle_action(multi.solver) : MinimalOverAll(e)

(***************************************************************************)
(* C23: the time-greedy policy returns a pair whose time delta (the time   *)
(* of the resulting child state minus the time of the vehicle's current    *)
(* state) is minimal over all (vehicle, branch) pairs of all active        *)
(* vehicles; among equal minima the first pair in scan order is returned.  *)
(***************************************************************************)
TimeDelta(e) == heap[e.state].time - heap[current_state[e.vehicle]].time

\* positions, in scan order, of the pairs of smallest time delta
MinimalPositions ==
  {i \in DOMAIN Choices(0) :
     \A j \in DOMAIN Choices(0) :
       TimeDelta(Choices(0)[i]) <= TimeDelta(Choices(0)[j])}

C23_TimeGreedyFirstMinimum ==
  (pc = "loop" /\ get_active_vehicles # {}) =>
    \A e \in select_vehicle_action("TimeGreedySolver") :
      \E i \in MinimalPositions :
        /\ e = Choices(0)[i]
        /\ \A j \in MinimalPositions : i <= j

\* the time-greedy policy is asked with pairs of two vehicles tied on the
\* smallest time delta and a third pair that takes longer
C23_Witness ==
  /\ pc = "loop"
  /\ multi.solver = "TimeGreedySolver"
  /\ \E i, j \in MinimalPositions :
       Choices(0)[i].vehicle # Choices(0)[j].vehicle
  /\ MinimalPositions # DOMAIN Choices(0)

(***************************************************************************)
(* C24: beam_search returns the single lowest-cumulative-cost sequence     *)
(* among the sequences retained in the final beam, for every initial       *)
(* state, successor function, beam width >= 1 and max depth.               *)
(***************************************************************************)
C24_BeamReturnsLowestCost ==
  pc = "beam_returned" =>
    \E i \in DOMAIN beam.beam :
      /\ beam.result = beam.beam[i].sequence
      /\ \A j \in DOMAIN beam.beam : beam.beam[i].cost <= beam.beam[j].cost

(***************************************************************************)
(* C29: beam_search always returns a sequence: the beam is non-empty at    *)
(* the final selection, also when every sequence of the beam reaches a     *)
(* state without successors before max_depth is exhausted, and a sequence  *)
(* that has reached a terminal state is not dropped from the beam by a     *)
(* later expansion round.                                                  *)
(***************************************************************************)
TerminalKept ==
  last'.op = "round" =>
    \A i \in DOMAIN beam.beam :
      is_terminal(beam.beam[i].state) =>
        \E j \in DOMAIN beam'.beam :
          beam'.beam[j].sequence = beam.beam[i].sequence

C29_BeamAlwaysReturns ==
  /\ [](pc = "beam_select" => beam.beam # <<>>)
  /\ [](pc # "beam_raised")
  /\ [][TerminalKept]_vars

(***************************************************************************)
(* C25: on an Action that has not been linked to a Call, reading call,     *)
(* reading load_delta, hashing and comparing for equality each fail with   *)
(* an error; in particular two distinct unlinked actions never compare     *)
(* equal.                                                                  *)
(***************************************************************************)
Unlinked(a) == a._call = <<>>

C25_UnlinkedActionFails ==
  /\ (last.op \in {"call", "load_delta", "hash", "eq"}
        /\ Unlinked(objs[last.obj])) => last.raised
  /\ (last.op = "eq" /\ last.obj # last.other
        /\ Unlinked(objs[last.obj]) /\ Unlinked(objs[last.other]))
       => last.result # <<TRUE>>

(***************************************************************************)
(* C26: every branch of every State of a vehicle's tree is feasible from   *)
(* that State: for a State s of the tree and a branch (action, child) of   *)
(* s, child is the State obtained by simulating action from s (its node    *)
(* is the action's node, its time and commitments derive from those of     *)
(* s).  This includes the grandchildren created by expand_state with       *)
(* depth >= 2.                                                             *)
(***************************************************************************)
SimulatedFrom(v, s, action, child) ==
  LET r == perform(v, s, action) IN
  /\ r # <<>>
  /\ child.node = node(action)
  /\ child.node = r[1].node
  /\ child.time = r[1].time
  /\ child.commitments = r[1].commitments

C26_BranchesFeasibleFromNode ==
  \A v \in Vehicles :
    \A id \in Tree(Store, initial_state[v]) :
      \A k \in DOMAIN heap[id].next_states :
        SimulatedFrom(v, heap[id], heap[id].next_states[k].action,
                      heap[heap[id].next_states[k].state])

(***************************************************************************)
(* C27: when the construction loop terminates, every vehicle's current     *)
(* state has empty commitments and load 0: every call that was picked up   *)
(* has been delivered by the same vehicle, whatever the instance and the   *)
(* choices of the policy.  A vehicle with open commitments has a branch    *)
(* for one of its deliveries, so it is still active.                       *)
(***************************************************************************)
OpenCommitments(v) == heap[current_state[v]].commitments

HasDeliveryBranch(v) ==
  \E c \in OpenCommitments(v) :
    Delivery(c) \in Keys(heap[current_state[v]].next_states)

PickedUpAndDelivered(v) ==
  \A c \in Calls :
    (\E i \in DOMAIN Route(v) : Route(v)[i] = Pickup(c))
      => (\E j \in DOMAIN Route(v) : Route(v)[j] = Delivery(c))

C27_NoOpenCommitmentsAtEnd ==
  /\ pc = "done" =>
       \A v \in Vehicles :
         /\ OpenCommitments(v) = {}
         /\ load(heap[current_state[v]]) = 0
         /\ PickedUpAndDelivered(v)
  /\ pc = "loop" =>
       \A v \in Vehicles :
         OpenCommitments(v) # {} =>
           /\ HasDeliveryBranch(v)
           /\ v \in get_active_vehicles

\* the loop has ended after a vehicle held two calls at once and delivered
\* both
C27_Witness ==
  /\ pc = "done"
  /\ \E v \in Vehicles :
       /\ Len(Route(v)) >= 4
       /\ Route(v)[1].action_idx = 0
       /\ Route(v)[2].action_idx = 0
       /\ OpenCommitments(v) = {}

(***************************************************************************)
(* C28: the constructed solution is maximal.  At the head of every loop    *)
(* iteration the branches of each vehicle's current state are exactly the  *)
(* candidate actions (its open deliveries and the pickups of compatible    *)
(* calls still in unanswered_calls) for which perform succeeds; so at      *)
(* termination no vehicle can feasibly pick up a call that remains         *)
(* unanswered, and unanswered_calls is exactly the set of calls in no      *)
(* vehicle's route.                                                        *)
(***************************************************************************)
FeasibleCandidates(v) ==
  {a \in Candidates(v, heap[current_state[v]], unanswered_calls) :
     perform(v, heap[current_state[v]], a) # <<>>}

C28_SolutionMaximal ==
  /\ pc \in {"loop", "done"} =>
       \A v \in Vehicles :
         Keys(heap[current_state[v]].next_states) = FeasibleCandidates(v)
  /\ pc = "done" =>
       /\ \A v \in Vehicles :
            \A c \in compatible_calls(v) \cap unanswered_calls :
              perform(v, heap[current_state[v]], Pickup(c)) = <<>>
       /\ unanswered_calls = Calls \ Served

\* the loop has ended with a call left unanswered that a vehicle which
\* served another call is compatible with
C28_Witness ==
  /\ pc = "done"
  /\ \E v \in Vehicles :
       /\ Route(v) # <<>>
       /\ compatible_calls(v) \cap unanswered_calls # {}

====
